---- MODULE Spec2Model ----
(***************************************************************************)
(* The exercise validation engine of posture-perfect: the four validators  *)
(* (Cat-Cow, Wall Angels, Chest Opener, Neck Side-to-Side), their metric   *)
(* extractors, and the Streamlit frame loop that drives them.              *)
(*                                                                         *)
(* Number conventions (Python floats are replaced by exact integers):      *)
(*   - a score is held in sixths of a point (Points(100) is 100.0), so     *)
(*     that the Neck partial score (crossed_count / 6.0) * 100.0 is exact; *)
(*   - Cat-Cow's rep_count is held in half reps (rep_count += 0.5 adds 1); *)
(*   - a time is held in frames (seconds * 30), so TEMPO_MIN 2.0 s is      *)
(*     TEMPO_MIN * FPS frames;                                             *)
(*   - a normalised coordinate is held in hundredths (0.5 is 50).          *)
(***************************************************************************)
EXTENDS Integers, Sequences, FiniteSets, TLC

VARIABLES
    exercise,      \* the validator instance (st.session_state.current_exercise)
    result,        \* the ValidationResult of the latest validate_form call since reset
    last_frame,    \* frame_count of the latest validate_form call on the instance
    prev_frame,    \* frame_count of the validate_form call before that one
    twin,          \* once reset() was called: a new instance fed the calls made since
    twin_result,   \* the twin's latest ValidationResult
    monitor,       \* what an observer of the calls has seen (per exercise)
    running,       \* st.session_state.running
    frame_count,   \* run_session's local frame counter
    in_session,    \* whether run_session's loop is executing
    entries,       \* how many times run_session has been entered
    pose_detected, \* results.pose_landmarks of the latest loop iteration
    all_visible,   \* check_visibility's verdict in the latest loop iteration
    _exercises,    \* ExerciseFactory._exercises: the registry
    _initialized,  \* ExerciseFactory._initialized
    factory_out,   \* what the latest ExerciseFactory call printed, returned or raised
    registrations  \* for each id, the class of the latest register call since
                   \* the registry was last empty

vars == <<exercise, result, last_frame, prev_frame, twin, twin_result, monitor,
          running, frame_count, in_session, entries, pose_detected, all_visible,
          _exercises, _initialized, factory_out, registrations>>

validator_vars == <<exercise, result, last_frame, prev_frame, twin, twin_result, monitor>>

app_vars == <<running, frame_count, in_session, entries, pose_detected, all_visible>>

factory_vars == <<_exercises, _initialized, factory_out, registrations>>

\* ------------------------------------------------------------------------
\* Shared helpers
\* ------------------------------------------------------------------------

Points(n) == 6 * n

Max(a, b) == IF a >= b THEN a ELSE b

Min(a, b) == IF a <= b THEN a ELSE b

Abs(a) == IF a >= 0 THEN a ELSE -a

RECURSIVE SumSeq(_)
SumSeq(s) == IF s = <<>> THEN 0 ELSE Head(s) + SumSeq(Tail(s))

\* collections.deque(maxlen=n).append, on the length of the deque: the
\* histories are only appended to and cleared, no method reads an entry.
deque_append(len, maxlen) == IF len < maxlen THEN len + 1 ELSE maxlen

\* Landmark dicts are functions from landmark names (and the two sentinel
\* keys "_all_visible", "_missing_points") to (x, y, z) in hundredths;
\* Python's p[0], p[1], p[2] are p[1], p[2], p[3] here.
\* dict.get(key, default), and the coordinates of a landmark
Get(dict, key, default) == IF key \in DOMAIN dict THEN dict[key] ELSE default

\* separator.join(list)
RECURSIVE join(_, _)
join(separator, list) ==
    IF list = <<>> THEN ""
    ELSE IF Len(list) = 1 THEN list[1]
    ELSE list[1] \o separator \o join(separator, Tail(list))

X(p) == p[1]

Y(p) == p[2]

Z(p) == p[3]

\* math.degrees(math.atan2(y, x)) on the eight directions the poses use
atan2_degrees(y, x) ==
    CASE y = 0 /\ x >= 0 -> 0
      [] y > 0 /\ x = y -> 45
      [] y > 0 /\ x = 0 -> 90
      [] y > 0 /\ x = -y -> 135
      [] y = 0 /\ x < 0 -> 180
      [] y < 0 /\ x = -y -> -45
      [] y < 0 /\ x = 0 -> -90
      [] y < 0 /\ x = y -> -135

\* math.degrees(math.acos(c)) for c = num / sqrt(den_sq), on the cosines
\* 0, +-1 and +-1/sqrt(2) the poses produce
acos_degrees(num, den_sq) ==
    CASE num = 0 -> 90
      [] num # 0 /\ num * num = den_sq -> IF num > 0 THEN 0 ELSE 180
      [] num # 0 /\ 2 * num * num = den_sq -> IF num > 0 THEN 45 ELSE 135

\* _midpoint: the 2D midpoint (the poses keep the sums even)
midpoint(p1, p2) == <<(X(p1) + X(p2)) \div 2, (Y(p1) + Y(p2)) \div 2>>

\* _angle_from_vertical / _angle_from_vertical_2d
angle_from_vertical(p1, p2) ==
    atan2_degrees(Abs(X(p2) - X(p1)), Abs(Y(p2) - Y(p1)))

\* _calculate_angle: the angle at p2 by the law of cosines, with a, b, c the
\* side lengths: cos = (a^2 + b^2 - c^2) / (2ab)
calculate_angle(p1, p2, p3) ==
    LET a_sq == (X(p2) - X(p1)) * (X(p2) - X(p1)) + (Y(p2) - Y(p1)) * (Y(p2) - Y(p1))
        b_sq == (X(p3) - X(p2)) * (X(p3) - X(p2)) + (Y(p3) - Y(p2)) * (Y(p3) - Y(p2))
        c_sq == (X(p3) - X(p1)) * (X(p3) - X(p1)) + (Y(p3) - Y(p1)) * (Y(p3) - Y(p1))
    IN  IF a_sq * b_sq = 0 THEN 0
        ELSE acos_degrees(a_sq + b_sq - c_sq, 4 * a_sq * b_sq)

FPS == 30

NoResult == [none |-> TRUE]

NoFrame == 0 - 1

NoTwin == [none |-> TRUE]

HasResult == "score" \in DOMAIN result

ValidationResult(is_correct, feedback_messages, score, details) ==
    [is_correct |-> is_correct, feedback_messages |-> feedback_messages,
     score |-> score, details |-> details]

\* ------------------------------------------------------------------------
\* CatCowPose (exercises/scoliosis/cat_cow.py)
\* ------------------------------------------------------------------------

MIN_SPINE_FLEX == 10
MAX_SPINE_FLEX == 35
MIN_SPINE_EXT == 10
MAX_SPINE_EXT == 30
TEMPO_MIN == 2
TEMPO_MAX == 5
SHOULDER_WRIST_TOLERANCE == 15
HIP_KNEE_TOLERANCE == 15
SPINE_HISTORY_MAXLEN == 150

STATE_NEUTRAL == "neutral"
STATE_CAT == "cat"
STATE_COW == "cow"

CatCowPose_init ==
    [cls |-> "scoliosis_cat_cow",
     current_state |-> STATE_NEUTRAL,
     last_state_change |-> 0,
     rep_count |-> 0,
     spine_angle_history |-> 0,
     transition_times |-> <<>>,
     symmetry_violations |-> 0,
     tempo_violations |-> 0]

\* A reset() that forgets the transition history
CatCowPose_reset_keeps_history(self) ==
    [self EXCEPT !.current_state = STATE_NEUTRAL,
                 !.last_state_change = 0,
                 !.rep_count = 0,
                 !.spine_angle_history = 0,
                 !.symmetry_violations = 0,
                 !.tempo_violations = 0]

CatCowPose_reset(self) ==
    [self EXCEPT !.current_state = STATE_NEUTRAL,
                 !.last_state_change = 0,
                 !.rep_count = 0,
                 !.spine_angle_history = 0,
                 !.transition_times = <<>>,
                 !.symmetry_violations = 0,
                 !.tempo_violations = 0]

\* Angles in degrees; head_alignment is abs(nose x - shoulder x) * 100, which
\* in hundredths of the frame width is the difference itself.
CatCowPose_calculate_metrics(landmarks) ==
    LET shoulder_mid == midpoint(landmarks["LEFT_SHOULDER"], landmarks["RIGHT_SHOULDER"])
        hip_mid == midpoint(landmarks["LEFT_HIP"], landmarks["RIGHT_HIP"])
        knee_mid == midpoint(landmarks["LEFT_KNEE"], landmarks["RIGHT_KNEE"])
        spine_angle == calculate_angle(shoulder_mid, hip_mid, knee_mid)
        spine_curvature == IF Y(hip_mid) < Y(shoulder_mid)
                           THEN -(180 - spine_angle) ELSE 180 - spine_angle
        left_shoulder_alignment ==
            angle_from_vertical(landmarks["LEFT_SHOULDER"], landmarks["LEFT_WRIST"])
        right_shoulder_alignment ==
            angle_from_vertical(landmarks["RIGHT_SHOULDER"], landmarks["RIGHT_WRIST"])
        left_hip_alignment ==
            angle_from_vertical(landmarks["LEFT_HIP"], landmarks["LEFT_KNEE"])
        right_hip_alignment ==
            angle_from_vertical(landmarks["RIGHT_HIP"], landmarks["RIGHT_KNEE"])
        left_spine_curve == calculate_angle(landmarks["LEFT_SHOULDER"],
                                            landmarks["LEFT_HIP"], landmarks["LEFT_KNEE"])
        right_spine_curve == calculate_angle(landmarks["RIGHT_SHOULDER"],
                                             landmarks["RIGHT_HIP"], landmarks["RIGHT_KNEE"])
    IN  [spine_curvature |-> spine_curvature,
         shoulder_alignment |->
             (Abs(left_shoulder_alignment) + Abs(right_shoulder_alignment)) \div 2,
         hip_alignment |-> (Abs(left_hip_alignment) + Abs(right_hip_alignment)) \div 2,
         symmetry_diff |-> Abs(left_spine_curve - right_spine_curve),
         head_alignment |-> Abs(X(landmarks["NOSE"]) - X(shoulder_mid))]

\* Bands that take their ends in
CatCow_detect_state_inclusive(spine_curve) ==
    IF spine_curve <= -MIN_SPINE_FLEX THEN STATE_CAT
    ELSE IF spine_curve >= MIN_SPINE_EXT THEN STATE_COW
    ELSE STATE_NEUTRAL

\* STATE DETECTION
CatCow_detect_state(spine_curve) ==
    IF spine_curve < -MIN_SPINE_FLEX THEN STATE_CAT
    ELSE IF spine_curve > MIN_SPINE_EXT THEN STATE_COW
    ELSE STATE_NEUTRAL

\* Every change of phase taken for a rep transition
CatCow_is_rep_transition_any(previous_state, current_state) ==
    previous_state # current_state

\* "Only count Cat<->Cow transitions as reps"
CatCow_is_rep_transition(previous_state, current_state) ==
    \/ (previous_state = STATE_CAT /\ current_state = STATE_COW)
    \/ (previous_state = STATE_COW /\ current_state = STATE_CAT)

\* A tempo window that excludes its ends
CatCow_check_tempo_open(transition_time) ==
    IF transition_time <= TEMPO_MIN * FPS
    THEN [feedback |-> <<"tempo_slow_down">>, violation |-> 1, penalty |-> Points(5)]
    ELSE IF transition_time >= TEMPO_MAX * FPS
    THEN [feedback |-> <<"tempo_speed_up">>, violation |-> 1, penalty |-> Points(3)]
    ELSE [feedback |-> <<"tempo_good">>, violation |-> 0, penalty |-> 0]

\* "Check transition tempo": transition_time is in frames
CatCow_check_tempo(transition_time) ==
    IF transition_time < TEMPO_MIN * FPS
    THEN [feedback |-> <<"tempo_slow_down">>, violation |-> 1, penalty |-> Points(5)]
    ELSE IF transition_time > TEMPO_MAX * FPS
    THEN [feedback |-> <<"tempo_speed_up">>, violation |-> 1, penalty |-> Points(3)]
    ELSE [feedback |-> <<"tempo_good">>, violation |-> 0, penalty |-> 0]

\* The time of every change of phase kept, through NEUTRAL too
CatCow_transition_keeps_all(self, previous_state, current_state, frame_count_arg) ==
    LET transition_time == frame_count_arg - self.last_state_change
        tempo == CatCow_check_tempo(transition_time)
    IN  IF previous_state # current_state
        THEN IF CatCow_is_rep_transition(previous_state, current_state)
             THEN [rep_count |-> self.rep_count + 1,
                   tempo_violations |-> self.tempo_violations + tempo.violation,
                   transition_times |-> Append(self.transition_times, transition_time),
                   last_state_change |-> frame_count_arg,
                   feedback |-> tempo.feedback,
                   penalty |-> tempo.penalty]
             ELSE [rep_count |-> self.rep_count,
                   tempo_violations |-> self.tempo_violations,
                   transition_times |-> Append(self.transition_times, transition_time),
                   last_state_change |-> frame_count_arg,
                   feedback |-> <<>>,
                   penalty |-> 0]
        ELSE [rep_count |-> self.rep_count,
              tempo_violations |-> self.tempo_violations,
              transition_times |-> self.transition_times,
              last_state_change |-> self.last_state_change,
              feedback |-> <<>>,
              penalty |-> 0]

\* "Detect state transitions (completed reps)": the fields the block updates
CatCow_transition(self, previous_state, current_state, frame_count_arg) ==
    LET transition_time == frame_count_arg - self.last_state_change
        tempo == CatCow_check_tempo(transition_time)
    IN  IF previous_state # current_state
        THEN IF CatCow_is_rep_transition(previous_state, current_state)
             THEN [rep_count |-> self.rep_count + 1,
                   tempo_violations |-> self.tempo_violations + tempo.violation,
                   transition_times |-> Append(self.transition_times, transition_time),
                   last_state_change |-> frame_count_arg,
                   feedback |-> tempo.feedback,
                   penalty |-> tempo.penalty]
             ELSE [rep_count |-> self.rep_count,
                   tempo_violations |-> self.tempo_violations,
                   transition_times |-> self.transition_times,
                   last_state_change |-> frame_count_arg,
                   feedback |-> <<>>,
                   penalty |-> 0]
        ELSE [rep_count |-> self.rep_count,
              tempo_violations |-> self.tempo_violations,
              transition_times |-> self.transition_times,
              last_state_change |-> self.last_state_change,
              feedback |-> <<>>,
              penalty |-> 0]

\* "1. Check spine curvature range"
CatCow_check_spine(current_state, spine_curve) ==
    IF current_state = STATE_CAT
    THEN IF spine_curve > -MIN_SPINE_FLEX
         THEN [feedback |-> <<"cat_round_more">>, penalty |-> Points(15), ok |-> FALSE]
         ELSE IF spine_curve < -MAX_SPINE_FLEX
         THEN [feedback |-> <<"cat_over_flex">>, penalty |-> Points(20), ok |-> FALSE]
         ELSE [feedback |-> <<"cat_good">>, penalty |-> 0, ok |-> TRUE]
    ELSE IF current_state = STATE_COW
    THEN IF spine_curve < MIN_SPINE_EXT
         THEN [feedback |-> <<"cow_extend_more">>, penalty |-> Points(15), ok |-> FALSE]
         ELSE IF spine_curve > MAX_SPINE_EXT
         THEN [feedback |-> <<"cow_over_extend">>, penalty |-> Points(20), ok |-> FALSE]
         ELSE [feedback |-> <<"cow_good">>, penalty |-> 0, ok |-> TRUE]
    ELSE [feedback |-> <<"return_to_start">>, penalty |-> 0, ok |-> TRUE]

\* The shoulder check as a mere penalty
CatCow_check_shoulder_soft(metrics) ==
    IF metrics.shoulder_alignment > SHOULDER_WRIST_TOLERANCE
    THEN [feedback |-> <<"hands_under_shoulders">>, penalty |-> Points(10), ok |-> TRUE]
    ELSE [feedback |-> <<>>, penalty |-> 0, ok |-> TRUE]

\* "2. Check shoulder-wrist alignment"
CatCow_check_shoulder(metrics) ==
    IF metrics.shoulder_alignment > SHOULDER_WRIST_TOLERANCE
    THEN [feedback |-> <<"hands_under_shoulders">>, penalty |-> Points(10), ok |-> FALSE]
    ELSE [feedback |-> <<>>, penalty |-> 0, ok |-> TRUE]

\* "3. Check hip-knee alignment"
CatCow_check_hip(metrics) ==
    IF metrics.hip_alignment > HIP_KNEE_TOLERANCE
    THEN [feedback |-> <<"knees_under_hips">>, penalty |-> Points(10), ok |-> FALSE]
    ELSE [feedback |-> <<>>, penalty |-> 0, ok |-> TRUE]

\* A sign slip: the symmetry penalty added to the score, not subtracted
CatCow_check_symmetry_added(metrics) ==
    IF metrics.symmetry_diff > 15
    THEN [feedback |-> <<"keep_symmetrical">>, penalty |-> -Points(15), ok |-> FALSE,
          violation |-> 1]
    ELSE [feedback |-> <<"good_symmetry">>, penalty |-> 0, ok |-> TRUE,
          violation |-> 0]

\* "4. Check symmetry (critical for scoliosis)"
CatCow_check_symmetry(metrics) ==
    IF metrics.symmetry_diff > 15
    THEN [feedback |-> <<"keep_symmetrical">>, penalty |-> Points(15), ok |-> FALSE,
          violation |-> 1]
    ELSE [feedback |-> <<"good_symmetry">>, penalty |-> 0, ok |-> TRUE,
          violation |-> 0]

\* "5. Check head alignment"
CatCow_check_head(metrics) ==
    IF metrics.head_alignment > 20
    THEN [feedback |-> <<"head_aligned">>, penalty |-> Points(5)]
    ELSE [feedback |-> <<>>, penalty |-> 0]

\* The summary lines with the tempo line first
CatCow_progress_tempo_first(rep_count, transition_times) ==
    (IF Len(transition_times) > 0 THEN <<"average_tempo">> ELSE <<>>)
    \o (IF rep_count > 0 THEN <<"reps_completed">> ELSE <<>>)

\* PROGRESS TRACKING: the two summary lines
CatCow_progress(rep_count, transition_times) ==
    (IF rep_count > 0 THEN <<"reps_completed">> ELSE <<>>)
    \o (IF Len(transition_times) > 0 THEN <<"average_tempo">> ELSE <<>>)

\* sum(transition_times) / len(transition_times) in seconds, as a fraction
CatCow_avg_tempo(transition_times) ==
    IF Len(transition_times) > 0
    THEN [num |-> SumSeq(transition_times), den |-> FPS * Len(transition_times)]
    ELSE [num |-> 0, den |-> 1]

\* The count rounded to the nearest whole rep, halves upwards
CatCow_reported_reps_rounded(rep_count) == (rep_count + 1) \div 2

\* int(self.rep_count), rep_count being kept in half reps
CatCow_reported_reps(rep_count) == rep_count \div 2

CatCowPose_validate_form(self, metrics, frame_count_arg) ==
    LET spine_curve == metrics.spine_curvature
        previous_state == self.current_state
        current_state == CatCow_detect_state(spine_curve)
        t == CatCow_transition(self, previous_state, current_state, frame_count_arg)
        spine == CatCow_check_spine(current_state, spine_curve)
        shoulder == CatCow_check_shoulder(metrics)
        hip == CatCow_check_hip(metrics)
        symmetry == CatCow_check_symmetry(metrics)
        head == CatCow_check_head(metrics)
        symmetry_violations == self.symmetry_violations + symmetry.violation
        feedback == t.feedback \o spine.feedback \o shoulder.feedback
                    \o hip.feedback \o symmetry.feedback \o head.feedback
                    \o CatCow_progress(t.rep_count, t.transition_times)
        is_correct == spine.ok /\ shoulder.ok /\ hip.ok /\ symmetry.ok
        score == Points(100) - t.penalty - spine.penalty - shoulder.penalty
                 - hip.penalty - symmetry.penalty - head.penalty
    IN  [self |-> [self EXCEPT
                     !.spine_angle_history =
                         deque_append(self.spine_angle_history, SPINE_HISTORY_MAXLEN),
                     !.current_state = current_state,
                     !.rep_count = t.rep_count,
                     !.tempo_violations = t.tempo_violations,
                     !.transition_times = t.transition_times,
                     !.last_state_change = t.last_state_change,
                     !.symmetry_violations = symmetry_violations],
         result |-> ValidationResult(
                     is_correct, feedback, Max(0, score),
                     [state |-> current_state,
                      reps |-> CatCow_reported_reps(t.rep_count),
                      symmetry_violations |-> symmetry_violations,
                      tempo_violations |-> t.tempo_violations,
                      avg_tempo |-> CatCow_avg_tempo(t.transition_times)])]

\* ------------------------------------------------------------------------
\* WallAngels (exercises/scoliosis/wall_angels.py)
\* ------------------------------------------------------------------------

MIN_ARM_ANGLE_DOWN == 70
MAX_ARM_ANGLE_DOWN == 110
MIN_ARM_ANGLE_UP == 160
MAX_ARM_ANGLE_UP == 190
MAX_ARM_ANGLE_DIFF == 20
MAX_ELBOW_FORWARD == 15
ARM_HISTORY_MAXLEN == 90

STATE_ARMS_DOWN == "arms_down"
STATE_ARMS_UP == "arms_up"
STATE_TRANSITION == "transition"

WallAngels_init ==
    [cls |-> "wall_angels",
     current_state |-> STATE_NEUTRAL,
     last_state |-> STATE_NEUTRAL,
     rep_count |-> 0,
     arm_angle_history |-> 0,
     symmetry_violations |-> 0,
     elbow_violations |-> 0,
     down_position_reached |-> FALSE,
     up_position_reached |-> FALSE]

WallAngels_reset(self) ==
    [self EXCEPT !.current_state = STATE_NEUTRAL,
                 !.last_state = STATE_NEUTRAL,
                 !.rep_count = 0,
                 !.arm_angle_history = 0,
                 !.symmetry_violations = 0,
                 !.elbow_violations = 0,
                 !.down_position_reached = FALSE,
                 !.up_position_reached = FALSE]

\* _calculate_arm_angle_from_horizontal: 0 = arm straight down, 90 = arm
\* horizontal, 180 = arm straight up
calculate_arm_angle_from_horizontal(shoulder, elbow, wrist) ==
    LET dx == Abs(X(wrist) - X(shoulder))
        dy == Y(wrist) - Y(shoulder)
        angle == atan2_degrees(-dy, dx) + 90
    IN  Max(0, Min(180, angle))

\* The poses keep the halved values whole.
WallAngels_calculate_metrics(landmarks) ==
    LET left_arm_angle == calculate_arm_angle_from_horizontal(
            landmarks["LEFT_SHOULDER"], landmarks["LEFT_ELBOW"], landmarks["LEFT_WRIST"])
        right_arm_angle == calculate_arm_angle_from_horizontal(
            landmarks["RIGHT_SHOULDER"], landmarks["RIGHT_ELBOW"], landmarks["RIGHT_WRIST"])
        left_elbow_forward_z == Abs(Z(landmarks["LEFT_ELBOW"]) - Z(landmarks["LEFT_SHOULDER"]))
        right_elbow_forward_z == Abs(Z(landmarks["RIGHT_ELBOW"]) - Z(landmarks["RIGHT_SHOULDER"]))
        left_elbow_forward_alt ==
            Max(0, Y(landmarks["LEFT_SHOULDER"]) - Y(landmarks["LEFT_ELBOW"]))
        right_elbow_forward_alt ==
            Max(0, Y(landmarks["RIGHT_SHOULDER"]) - Y(landmarks["RIGHT_ELBOW"]))
        shoulder_mid == midpoint(landmarks["LEFT_SHOULDER"], landmarks["RIGHT_SHOULDER"])
        hip_mid == midpoint(landmarks["LEFT_HIP"], landmarks["RIGHT_HIP"])
        torso_angle == angle_from_vertical(shoulder_mid, hip_mid)
    IN  [left_arm_angle |-> left_arm_angle,
         right_arm_angle |-> right_arm_angle,
         arm_symmetry_diff |-> Abs(left_arm_angle - right_arm_angle),
         left_elbow_forward |-> Max(left_elbow_forward_z, left_elbow_forward_alt \div 2),
         right_elbow_forward |-> Max(right_elbow_forward_z, right_elbow_forward_alt \div 2),
         torso_angle |-> Abs(torso_angle),
         avg_arm_angle |-> (left_arm_angle + right_arm_angle) \div 2]

\* Bands one degree wider than the ones the position check tests
WallAngels_detect_state_wide(avg_arm) ==
    IF MIN_ARM_ANGLE_DOWN - 1 <= avg_arm /\ avg_arm <= MAX_ARM_ANGLE_DOWN + 1
    THEN STATE_ARMS_DOWN
    ELSE IF MIN_ARM_ANGLE_UP - 1 <= avg_arm /\ avg_arm <= MAX_ARM_ANGLE_UP + 1
    THEN STATE_ARMS_UP
    ELSE STATE_TRANSITION

\* STATE DETECTION: "Detect arm position"
WallAngels_detect_state(avg_arm) ==
    IF MIN_ARM_ANGLE_DOWN <= avg_arm /\ avg_arm <= MAX_ARM_ANGLE_DOWN
    THEN STATE_ARMS_DOWN
    ELSE IF MIN_ARM_ANGLE_UP <= avg_arm /\ avg_arm <= MAX_ARM_ANGLE_UP
    THEN STATE_ARMS_UP
    ELSE STATE_TRANSITION

\* The rep taken off the count when the arms come back down
WallAngels_count_rep_minus(self, current_state) ==
    IF current_state = STATE_ARMS_DOWN
    THEN IF self.up_position_reached
         THEN [rep_count |-> self.rep_count - 1,
               down_position_reached |-> TRUE,
               up_position_reached |-> FALSE,
               feedback |-> <<"rep_complete">>]
         ELSE [rep_count |-> self.rep_count,
               down_position_reached |-> TRUE,
               up_position_reached |-> self.up_position_reached,
               feedback |-> <<>>]
    ELSE IF current_state = STATE_ARMS_UP /\ self.down_position_reached
    THEN [rep_count |-> self.rep_count,
          down_position_reached |-> FALSE,
          up_position_reached |-> TRUE,
          feedback |-> <<>>]
    ELSE [rep_count |-> self.rep_count,
          down_position_reached |-> self.down_position_reached,
          up_position_reached |-> self.up_position_reached,
          feedback |-> <<>>]

\* ARMS_UP noted without ARMS_DOWN having been reached first
WallAngels_count_rep_ungated(self, current_state) ==
    IF current_state = STATE_ARMS_DOWN
    THEN IF self.up_position_reached
         THEN [rep_count |-> self.rep_count + 1,
               down_position_reached |-> TRUE,
               up_position_reached |-> FALSE,
               feedback |-> <<"rep_complete">>]
         ELSE [rep_count |-> self.rep_count,
               down_position_reached |-> TRUE,
               up_position_reached |-> self.up_position_reached,
               feedback |-> <<>>]
    ELSE IF current_state = STATE_ARMS_UP
    THEN [rep_count |-> self.rep_count,
          down_position_reached |-> FALSE,
          up_position_reached |-> TRUE,
          feedback |-> <<>>]
    ELSE [rep_count |-> self.rep_count,
          down_position_reached |-> self.down_position_reached,
          up_position_reached |-> self.up_position_reached,
          feedback |-> <<>>]

\* ARMS_UP noted without the down flag being cleared
WallAngels_count_rep_keeps_down(self, current_state) ==
    IF current_state = STATE_ARMS_DOWN
    THEN IF self.up_position_reached
         THEN [rep_count |-> self.rep_count + 1,
               down_position_reached |-> TRUE,
               up_position_reached |-> FALSE,
               feedback |-> <<"rep_complete">>]
         ELSE [rep_count |-> self.rep_count,
               down_position_reached |-> TRUE,
               up_position_reached |-> self.up_position_reached,
               feedback |-> <<>>]
    ELSE IF current_state = STATE_ARMS_UP /\ self.down_position_reached
    THEN [rep_count |-> self.rep_count,
          down_position_reached |-> TRUE,
          up_position_reached |-> TRUE,
          feedback |-> <<>>]
    ELSE [rep_count |-> self.rep_count,
          down_position_reached |-> self.down_position_reached,
          up_position_reached |-> self.up_position_reached,
          feedback |-> <<>>]

\* REP COUNTING: "Rep complete when: arms down -> arms up -> arms down"
WallAngels_count_rep(self, current_state) ==
    IF current_state = STATE_ARMS_DOWN
    THEN IF self.up_position_reached
         THEN [rep_count |-> self.rep_count + 1,
               down_position_reached |-> TRUE,
               up_position_reached |-> FALSE,
               feedback |-> <<"rep_complete">>]
         ELSE [rep_count |-> self.rep_count,
               down_position_reached |-> TRUE,
               up_position_reached |-> self.up_position_reached,
               feedback |-> <<>>]
    ELSE IF current_state = STATE_ARMS_UP /\ self.down_position_reached
    THEN [rep_count |-> self.rep_count,
          down_position_reached |-> FALSE,
          up_position_reached |-> TRUE,
          feedback |-> <<>>]
    ELSE [rep_count |-> self.rep_count,
          down_position_reached |-> self.down_position_reached,
          up_position_reached |-> self.up_position_reached,
          feedback |-> <<>>]

\* "1. Check arm angles"
WallAngels_check_arms(current_state, avg_arm) ==
    IF current_state = STATE_ARMS_DOWN
    THEN IF avg_arm < MIN_ARM_ANGLE_DOWN
         THEN [feedback |-> <<"raise_to_shoulder_level">>, penalty |-> Points(10), ok |-> FALSE]
         ELSE IF avg_arm > MAX_ARM_ANGLE_DOWN
         THEN [feedback |-> <<"lower_to_shoulder_level">>, penalty |-> Points(10), ok |-> FALSE]
         ELSE [feedback |-> <<"good_start_position">>, penalty |-> 0, ok |-> TRUE]
    ELSE IF current_state = STATE_ARMS_UP
    THEN IF avg_arm < MIN_ARM_ANGLE_UP
         THEN [feedback |-> <<"reach_overhead">>, penalty |-> Points(15), ok |-> FALSE]
         ELSE IF avg_arm > MAX_ARM_ANGLE_UP
         THEN [feedback |-> <<"dont_over_extend">>, penalty |-> Points(10), ok |-> FALSE]
         ELSE [feedback |-> <<"arms_fully_raised">>, penalty |-> 0, ok |-> TRUE]
    ELSE IF current_state = STATE_TRANSITION
    THEN [feedback |-> <<"move_slowly">>, penalty |-> 0, ok |-> TRUE]
    ELSE [feedback |-> <<"start_at_shoulder_level">>, penalty |-> 0, ok |-> TRUE]

\* "2. Check arm symmetry (critical for posture correction)"
WallAngels_check_symmetry(symmetry) ==
    IF symmetry > MAX_ARM_ANGLE_DIFF
    THEN [feedback |-> <<"keep_arms_symmetrical">>, penalty |-> Points(15), ok |-> FALSE,
          violation |-> 1]
    ELSE [feedback |-> <<"good_arm_symmetry">>, penalty |-> 0, ok |-> TRUE,
          violation |-> 0]

\* Elbows forward counted once per frame however many they are
WallAngels_check_elbows_once(left_elbow_fwd, right_elbow_fwd) ==
    LET left_bad == left_elbow_fwd > MAX_ELBOW_FORWARD
        right_bad == right_elbow_fwd > MAX_ELBOW_FORWARD
    IN  [feedback |-> (IF left_bad THEN <<"left_elbow_back">> ELSE <<>>)
                      \o (IF right_bad THEN <<"right_elbow_back">> ELSE <<>>)
                      \o (IF ~left_bad /\ ~right_bad THEN <<"elbows_close">> ELSE <<>>),
         penalty |-> (IF left_bad THEN Points(10) ELSE 0)
                     + (IF right_bad THEN Points(10) ELSE 0),
         violation |-> IF left_bad \/ right_bad THEN 1 ELSE 0,
         ok |-> ~left_bad /\ ~right_bad]

\* "3. Check elbow position (should stay back near wall)"
WallAngels_check_elbows(left_elbow_fwd, right_elbow_fwd) ==
    LET left_bad == left_elbow_fwd > MAX_ELBOW_FORWARD
        right_bad == right_elbow_fwd > MAX_ELBOW_FORWARD
    IN  [feedback |-> (IF left_bad THEN <<"left_elbow_back">> ELSE <<>>)
                      \o (IF right_bad THEN <<"right_elbow_back">> ELSE <<>>)
                      \o (IF ~left_bad /\ ~right_bad THEN <<"elbows_close">> ELSE <<>>),
         penalty |-> (IF left_bad THEN Points(10) ELSE 0)
                     + (IF right_bad THEN Points(10) ELSE 0),
         violation |-> (IF left_bad THEN 1 ELSE 0) + (IF right_bad THEN 1 ELSE 0),
         ok |-> ~left_bad /\ ~right_bad]

\* "4. Check torso alignment"
WallAngels_check_torso(metrics) ==
    IF metrics.torso_angle > 15
    THEN [feedback |-> <<"back_flat">>, penalty |-> Points(10)]
    ELSE [feedback |-> <<>>, penalty |-> 0]

WallAngels_validate_form(self, metrics, frame_count_arg) ==
    LET avg_arm == metrics.avg_arm_angle
        current_state == WallAngels_detect_state(avg_arm)
        rep == WallAngels_count_rep(self, current_state)
        arms == WallAngels_check_arms(current_state, avg_arm)
        symmetry == WallAngels_check_symmetry(metrics.arm_symmetry_diff)
        elbows == WallAngels_check_elbows(metrics.left_elbow_forward,
                                          metrics.right_elbow_forward)
        torso == WallAngels_check_torso(metrics)
        symmetry_violations == self.symmetry_violations + symmetry.violation
        elbow_violations == self.elbow_violations + elbows.violation
        feedback == rep.feedback \o arms.feedback \o symmetry.feedback
                    \o elbows.feedback \o torso.feedback
        is_correct == arms.ok /\ symmetry.ok /\ elbows.ok
        score == Points(100) - arms.penalty - symmetry.penalty - elbows.penalty
                 - torso.penalty
    IN  [self |-> [self EXCEPT
                     !.arm_angle_history =
                         deque_append(self.arm_angle_history, ARM_HISTORY_MAXLEN),
                     !.current_state = current_state,
                     !.rep_count = rep.rep_count,
                     !.down_position_reached = rep.down_position_reached,
                     !.up_position_reached = rep.up_position_reached,
                     !.symmetry_violations = symmetry_violations,
                     !.elbow_violations = elbow_violations],
         result |-> ValidationResult(
                     is_correct, feedback, Max(0, score),
                     [state |-> current_state,
                      reps |-> rep.rep_count,
                      symmetry_violations |-> symmetry_violations,
                      elbow_violations |-> elbow_violations,
                      down_reached |-> rep.down_position_reached,
                      up_reached |-> rep.up_position_reached])]

\* ------------------------------------------------------------------------
\* ChestOpener (exercises/scoliosis/chest_opener.py)
\* ------------------------------------------------------------------------

HOLD_DURATION_SECONDS == 2
HOLD_FRAMES == 60
REP_COOLDOWN_FRAMES == 30
ELBOW_HEIGHT_TOLERANCE == 10

ChestOpener_init ==
    [cls |-> "chest_opener_retraction",
     rep_count |-> 0,
     in_start_position |-> FALSE,
     start_position_validated |-> FALSE,
     was_above_shoulders |-> FALSE,
     hold_complete |-> FALSE,
     hold_counter |-> 0,
     last_rep_frame |-> 0,
     rep_cooldown_frames |-> REP_COOLDOWN_FRAMES]

ChestOpener_reset(self) ==
    [self EXCEPT !.rep_count = 0,
                 !.in_start_position = FALSE,
                 !.start_position_validated = FALSE,
                 !.was_above_shoulders = FALSE,
                 !.hold_complete = FALSE,
                 !.hold_counter = 0,
                 !.last_rep_frame = 0]

\* The elbow angles (display only) are left out of the metrics.
ChestOpener_calculate_metrics(landmarks) ==
    LET left_elbow_visible == "LEFT_ELBOW" \in DOMAIN landmarks
        right_elbow_visible == "RIGHT_ELBOW" \in DOMAIN landmarks
    IN  IF ~left_elbow_visible \/ ~right_elbow_visible
        THEN [left_elbow_visible |-> left_elbow_visible,
              right_elbow_visible |-> right_elbow_visible,
              start_position_ok |-> FALSE]
        ELSE
        LET left_shoulder == landmarks["LEFT_SHOULDER"]
            left_elbow == landmarks["LEFT_ELBOW"]
            right_shoulder == landmarks["RIGHT_SHOULDER"]
            right_elbow == landmarks["RIGHT_ELBOW"]
            left_elbow_at_or_above ==
                Y(left_elbow) <= Y(left_shoulder) + ELBOW_HEIGHT_TOLERANCE
            right_elbow_at_or_above ==
                Y(right_elbow) <= Y(right_shoulder) + ELBOW_HEIGHT_TOLERANCE
            both_at_or_above_shoulders ==
                left_elbow_at_or_above /\ right_elbow_at_or_above
            left_elbow_above_shoulder == Y(left_elbow) < Y(left_shoulder)
            right_elbow_above_shoulder == Y(right_elbow) < Y(right_shoulder)
            left_elbow_below_shoulder == Y(left_elbow) > Y(left_shoulder)
            right_elbow_below_shoulder == Y(right_elbow) > Y(right_shoulder)
        IN  [left_elbow_visible |-> left_elbow_visible,
             right_elbow_visible |-> right_elbow_visible,
             start_position_ok |-> both_at_or_above_shoulders,
             left_elbow_at_or_above |-> left_elbow_at_or_above,
             right_elbow_at_or_above |-> right_elbow_at_or_above,
             both_at_or_above_shoulders |-> both_at_or_above_shoulders,
             left_elbow_above_shoulder |-> left_elbow_above_shoulder,
             right_elbow_above_shoulder |-> right_elbow_above_shoulder,
             both_above_shoulders |->
                 left_elbow_above_shoulder /\ right_elbow_above_shoulder,
             left_elbow_below_shoulder |-> left_elbow_below_shoulder,
             right_elbow_below_shoulder |-> right_elbow_below_shoulder,
             both_below_shoulders |->
                 left_elbow_below_shoulder /\ right_elbow_below_shoulder]

\* missing: the elbows that are not visible, as the feedback names them
ChestOpener_missing(metrics) ==
    (IF ~Get(metrics, "left_elbow_visible", TRUE) THEN <<"LEFT elbow">> ELSE <<>>)
    \o (IF ~Get(metrics, "right_elbow_visible", TRUE) THEN <<"RIGHT elbow">> ELSE <<>>)

\* An early return that also breaks the hold
ChestOpener_not_visible_breaks_hold(self, metrics) ==
    [self |-> [self EXCEPT !.in_start_position = FALSE, !.hold_counter = 0],
     result |-> ValidationResult(
                 FALSE,
                 <<"POSITION WRONG: Cannot see "
                       \o join(", ", ChestOpener_missing(metrics)) \o " on camera",
                   "move_into_frame">>,
                 0,
                 [reps |-> self.rep_count, in_start_position |-> FALSE])]

\* CHECK IF ELBOWS ARE VISIBLE: the early return
ChestOpener_not_visible(self, metrics) ==
    [self |-> [self EXCEPT !.in_start_position = FALSE],
     result |-> ValidationResult(
                 FALSE,
                 <<"POSITION WRONG: Cannot see "
                       \o join(", ", ChestOpener_missing(metrics)) \o " on camera",
                   "move_into_frame">>,
                 0,
                 [reps |-> self.rep_count, in_start_position |-> FALSE])]

\* An early return that lets elbows below the shoulders start a hold
ChestOpener_not_in_start_holds(self, metrics) ==
    [self |-> [self EXCEPT !.in_start_position = FALSE,
                           !.was_above_shoulders = FALSE,
                           !.hold_counter =
                               IF Get(metrics, "both_below_shoulders", FALSE)
                               THEN self.hold_counter + 1 ELSE self.hold_counter],
     result |-> ValidationResult(
                 FALSE,
                 <<"get_into_start_position">>
                 \o (IF ~Get(metrics, "left_elbow_at_or_above", FALSE)
                     THEN <<"left_elbow_not_at_height">> ELSE <<>>)
                 \o (IF ~Get(metrics, "right_elbow_at_or_above", FALSE)
                     THEN <<"right_elbow_not_at_height">> ELSE <<>>)
                 \o <<"requirements", "both_elbows_at_height">>,
                 0,
                 [reps |-> self.rep_count, in_start_position |-> FALSE])]

\* An early return that gives half the points for one elbow at height
ChestOpener_not_in_start_partial(self, metrics) ==
    [self |-> [self EXCEPT !.in_start_position = FALSE,
                           !.was_above_shoulders = FALSE],
     result |-> ValidationResult(
                 FALSE,
                 <<"get_into_start_position">>
                 \o (IF ~Get(metrics, "left_elbow_at_or_above", FALSE)
                     THEN <<"left_elbow_not_at_height">> ELSE <<>>)
                 \o (IF ~Get(metrics, "right_elbow_at_or_above", FALSE)
                     THEN <<"right_elbow_not_at_height">> ELSE <<>>)
                 \o <<"requirements", "both_elbows_at_height">>,
                 IF Get(metrics, "left_elbow_at_or_above", FALSE)
                    \/ Get(metrics, "right_elbow_at_or_above", FALSE)
                 THEN Points(50) ELSE 0,
                 [reps |-> self.rep_count, in_start_position |-> FALSE])]

\* ONE-TIME START POSITION VALIDATION: the early return
ChestOpener_not_in_start(self, metrics) ==
    [self |-> [self EXCEPT !.in_start_position = FALSE,
                           !.was_above_shoulders = FALSE],
     result |-> ValidationResult(
                 FALSE,
                 <<"get_into_start_position">>
                 \o (IF ~Get(metrics, "left_elbow_at_or_above", FALSE)
                     THEN <<"left_elbow_not_at_height">> ELSE <<>>)
                 \o (IF ~Get(metrics, "right_elbow_at_or_above", FALSE)
                     THEN <<"right_elbow_not_at_height">> ELSE <<>>)
                 \o <<"requirements", "both_elbows_at_height">>,
                 0,
                 [reps |-> self.rep_count, in_start_position |-> FALSE])]

\* A broken hold that leaves the counter where it was
ChestOpener_track_hold_no_reset(hold_counter, hold_complete, both_below_shoulders, was_above_shoulders) ==
    IF both_below_shoulders /\ was_above_shoulders
    THEN IF ~hold_complete
         THEN IF hold_counter + 1 >= HOLD_FRAMES
              THEN [hold_counter |-> hold_counter + 1, hold_complete |-> TRUE,
                    feedback |-> <<"hold_complete_now_rise">>]
              ELSE [hold_counter |-> hold_counter + 1, hold_complete |-> FALSE,
                    feedback |-> <<"hold_remaining">>]
         ELSE [hold_counter |-> hold_counter, hold_complete |-> TRUE,
               feedback |-> <<"hold_complete_rise">>]
    ELSE [hold_counter |-> hold_counter, hold_complete |-> hold_complete,
          feedback |-> IF hold_counter > 0 /\ ~hold_complete /\ hold_counter < HOLD_FRAMES
                       THEN <<"hold_broken">> ELSE <<>>]

\* An off-by-one: the hold complete only after more than HOLD_FRAMES frames
ChestOpener_track_hold_late(hold_counter, hold_complete, both_below_shoulders, was_above_shoulders) ==
    IF both_below_shoulders /\ was_above_shoulders
    THEN IF ~hold_complete
         THEN IF hold_counter + 1 > HOLD_FRAMES
              THEN [hold_counter |-> hold_counter + 1, hold_complete |-> TRUE,
                    feedback |-> <<"hold_complete_now_rise">>]
              ELSE [hold_counter |-> hold_counter + 1, hold_complete |-> FALSE,
                    feedback |-> <<"hold_remaining">>]
         ELSE [hold_counter |-> hold_counter, hold_complete |-> TRUE,
               feedback |-> <<"hold_complete_rise">>]
    ELSE IF hold_counter > 0 /\ ~hold_complete
         THEN [hold_counter |-> 0, hold_complete |-> hold_complete,
               feedback |-> IF hold_counter < HOLD_FRAMES
                            THEN <<"hold_broken">> ELSE <<>>]
         ELSE [hold_counter |-> hold_counter, hold_complete |-> hold_complete,
               feedback |-> <<>>]

\* A completed hold whose counter is cleared when the elbows leave the bottom
ChestOpener_track_hold_forgets(hold_counter, hold_complete, both_below_shoulders, was_above_shoulders) ==
    IF both_below_shoulders /\ was_above_shoulders
    THEN IF ~hold_complete
         THEN IF hold_counter + 1 >= HOLD_FRAMES
              THEN [hold_counter |-> hold_counter + 1, hold_complete |-> TRUE,
                    feedback |-> <<"hold_complete_now_rise">>]
              ELSE [hold_counter |-> hold_counter + 1, hold_complete |-> FALSE,
                    feedback |-> <<"hold_remaining">>]
         ELSE [hold_counter |-> hold_counter, hold_complete |-> TRUE,
               feedback |-> <<"hold_complete_rise">>]
    ELSE IF hold_counter > 0
         THEN [hold_counter |-> 0, hold_complete |-> hold_complete,
               feedback |-> IF hold_counter < HOLD_FRAMES
                            THEN <<"hold_broken">> ELSE <<>>]
         ELSE [hold_counter |-> hold_counter, hold_complete |-> hold_complete,
               feedback |-> <<>>]

\* A counter that keeps counting once the hold is complete
ChestOpener_track_hold_counts_on(hold_counter, hold_complete, both_below_shoulders, was_above_shoulders) ==
    IF both_below_shoulders /\ was_above_shoulders
    THEN IF hold_counter + 1 >= HOLD_FRAMES
         THEN [hold_counter |-> hold_counter + 1, hold_complete |-> TRUE,
               feedback |-> IF hold_complete THEN <<"hold_complete_rise">>
                            ELSE <<"hold_complete_now_rise">>]
         ELSE [hold_counter |-> hold_counter + 1, hold_complete |-> FALSE,
               feedback |-> <<"hold_remaining">>]
    ELSE IF hold_counter > 0 /\ ~hold_complete
         THEN [hold_counter |-> 0, hold_complete |-> hold_complete,
               feedback |-> IF hold_counter < HOLD_FRAMES
                            THEN <<"hold_broken">> ELSE <<>>]
         ELSE [hold_counter |-> hold_counter, hold_complete |-> hold_complete,
               feedback |-> <<>>]

\* HOLD TRACKING AT BOTTOM POSITION
ChestOpener_track_hold(hold_counter, hold_complete, both_below_shoulders, was_above_shoulders) ==
    IF both_below_shoulders /\ was_above_shoulders
    THEN IF ~hold_complete
         THEN IF hold_counter + 1 >= HOLD_FRAMES
              THEN [hold_counter |-> hold_counter + 1, hold_complete |-> TRUE,
                    feedback |-> <<"hold_complete_now_rise">>]
              ELSE [hold_counter |-> hold_counter + 1, hold_complete |-> FALSE,
                    feedback |-> <<"hold_remaining">>]
         ELSE [hold_counter |-> hold_counter, hold_complete |-> TRUE,
               feedback |-> <<"hold_complete_rise">>]
    ELSE IF hold_counter > 0 /\ ~hold_complete
         THEN [hold_counter |-> 0, hold_complete |-> hold_complete,
               feedback |-> IF hold_counter < HOLD_FRAMES
                            THEN <<"hold_broken">> ELSE <<>>]
         ELSE [hold_counter |-> hold_counter, hold_complete |-> hold_complete,
               feedback |-> <<>>]

\* A cooldown longer than a hold
ChestOpener_cooldown_ok_slow(self, frame_count_arg) ==
    \/ frame_count_arg - self.last_rep_frame >= 3 * self.rep_cooldown_frames
    \/ self.last_rep_frame = 0

\* "Check cooldown to prevent double counting"
ChestOpener_cooldown_ok(self, frame_count_arg) ==
    \/ frame_count_arg - self.last_rep_frame >= self.rep_cooldown_frames
    \/ self.last_rep_frame = 0

\* A rep block without cooldown that leaves the completed hold in place
ChestOpener_count_rep_again(self, hold, metrics, frame_count_arg) ==
    IF Get(metrics, "start_position_ok", FALSE) /\ hold.hold_complete
    THEN [rep_count |-> self.rep_count + 1,
          last_rep_frame |-> frame_count_arg,
          hold_complete |-> TRUE,
          hold_counter |-> hold.hold_counter,
          counted |-> TRUE,
          feedback |-> <<"rep_complete">>]
    ELSE [rep_count |-> self.rep_count,
          last_rep_frame |-> self.last_rep_frame,
          hold_complete |-> hold.hold_complete,
          hold_counter |-> hold.hold_counter,
          counted |-> FALSE,
          feedback |-> <<>>]

\* COUNT REP WHEN RETURNED TO START AFTER COMPLETING HOLD, and the feedback
\* of the other branches
ChestOpener_count_rep(self, hold, metrics, frame_count_arg) ==
    LET start_position_ok == Get(metrics, "start_position_ok", FALSE)
        both_above_shoulders == Get(metrics, "both_above_shoulders", FALSE)
        both_below_shoulders == Get(metrics, "both_below_shoulders", FALSE)
        one_below == Get(metrics, "left_elbow_below_shoulder", FALSE)
                     \/ Get(metrics, "right_elbow_below_shoulder", FALSE)
        unchanged == [rep_count |-> self.rep_count,
                      last_rep_frame |-> self.last_rep_frame,
                      hold_complete |-> hold.hold_complete,
                      hold_counter |-> hold.hold_counter,
                      counted |-> FALSE]
    IN  IF start_position_ok /\ hold.hold_complete
        THEN IF ChestOpener_cooldown_ok(self, frame_count_arg)
             THEN [rep_count |-> self.rep_count + 1,
                   last_rep_frame |-> frame_count_arg,
                   hold_complete |-> FALSE,
                   hold_counter |-> 0,
                   counted |-> TRUE,
                   feedback |-> <<"rep_complete">>]
             ELSE unchanged @@ [feedback |-> <<"back_in_start_ready">>]
        ELSE IF start_position_ok
        THEN unchanged @@
             [feedback |->
                 (IF both_above_shoulders THEN <<"start_elbows_above">>
                                          ELSE <<"start_elbows_at_height">>)
                 \o <<"elbow_angles">>
                 \o (IF ~hold.hold_complete THEN <<"lower_hold_rise">>
                                            ELSE <<"lower_again">>)]
        ELSE unchanged @@
             [feedback |->
                 IF both_below_shoulders THEN <<>>
                 ELSE IF one_below THEN <<"only_one_elbow_below">>
                 ELSE IF hold.hold_complete THEN <<"rise_back_to_start">>
                 ELSE <<"lower_hold_rise">>]

ChestOpener_validate_form(self, metrics, frame_count_arg) ==
    LET left_elbow_visible == Get(metrics, "left_elbow_visible", TRUE)
        right_elbow_visible == Get(metrics, "right_elbow_visible", TRUE)
        start_position_ok == Get(metrics, "start_position_ok", FALSE)
        both_at_or_above_shoulders == Get(metrics, "both_at_or_above_shoulders", FALSE)
        both_below_shoulders == Get(metrics, "both_below_shoulders", FALSE)
    IN  IF ~left_elbow_visible \/ ~right_elbow_visible
        THEN ChestOpener_not_visible(self, metrics)
        ELSE IF ~self.start_position_validated /\ ~start_position_ok
        THEN ChestOpener_not_in_start(self, metrics)
        ELSE
        LET \* start position validated (now or earlier)
            was_above_1 == IF ~self.start_position_validated
                           THEN TRUE ELSE self.was_above_shoulders
            \* "Track if we're at or above shoulders"
            was_above_2 == IF both_at_or_above_shoulders THEN TRUE ELSE was_above_1
            in_start_position == both_at_or_above_shoulders
            hold == ChestOpener_track_hold(self.hold_counter, self.hold_complete,
                                           both_below_shoulders, was_above_2)
            rep == ChestOpener_count_rep(self, hold, metrics, frame_count_arg)
            was_above_3 == IF rep.counted THEN TRUE ELSE was_above_2
        IN  [self |-> [self EXCEPT !.start_position_validated = TRUE,
                                   !.was_above_shoulders = was_above_3,
                                   !.in_start_position = in_start_position,
                                   !.hold_counter = rep.hold_counter,
                                   !.hold_complete = rep.hold_complete,
                                   !.rep_count = rep.rep_count,
                                   !.last_rep_frame = rep.last_rep_frame],
             result |-> ValidationResult(
                         TRUE, hold.feedback \o rep.feedback, Max(0, Points(100)),
                         [reps |-> rep.rep_count,
                          in_start_position |-> in_start_position,
                          was_above_shoulders |-> was_above_3,
                          hold_frames |-> rep.hold_counter,
                          hold_complete |-> rep.hold_complete])]

\* ------------------------------------------------------------------------
\* NeckSideToSide (exercises/scoliosis/neck_side_to_side.py)
\* ------------------------------------------------------------------------

MIDPOINT_X == 50

NeckPoints == {"LEFT_SHOULDER", "RIGHT_SHOULDER", "LEFT_ELBOW", "RIGHT_ELBOW",
               "LEFT_WRIST", "RIGHT_WRIST"}

NeckSideToSide_init ==
    [cls |-> "neck_side_to_side",
     rep_count |-> 0,
     left_reps |-> 0,
     right_reps |-> 0,
     left_was_crossed |-> FALSE,
     right_was_crossed |-> FALSE]

\* A reset() that clears the total and leaves the direction counters
NeckSideToSide_reset_total_only(self) ==
    [self EXCEPT !.rep_count = 0,
                 !.left_was_crossed = FALSE,
                 !.right_was_crossed = FALSE]

NeckSideToSide_reset(self) ==
    [self EXCEPT !.rep_count = 0,
                 !.left_reps = 0,
                 !.right_reps = 0,
                 !.left_was_crossed = FALSE,
                 !.right_was_crossed = FALSE]

\* A midline that belongs to both sides
NeckSideToSide_calculate_metrics_inclusive(landmarks) ==
    IF ~Get(landmarks, "_all_visible", TRUE)
    THEN [missing_points |-> Get(landmarks, "_missing_points", <<>>),
          all_visible |-> FALSE]
    ELSE
    LET x == [p \in NeckPoints |-> X(landmarks[p])]
        crossed_right == [p \in NeckPoints |-> x[p] >= MIDPOINT_X]
        crossed_left == [p \in NeckPoints |-> x[p] <= MIDPOINT_X]
    IN  [all_visible |-> TRUE,
         x |-> x,
         all_crossed_right |-> \A p \in NeckPoints : crossed_right[p],
         crossed_right |-> crossed_right,
         all_crossed_left |-> \A p \in NeckPoints : crossed_left[p],
         crossed_left |-> crossed_left]

\* The per-point keys '<point>_crossed_right' / '<point>_crossed_left' /
\* '<point>_x' of the source are the functions crossed_right, crossed_left
\* and x over NeckPoints.
NeckSideToSide_calculate_metrics(landmarks) ==
    IF ~Get(landmarks, "_all_visible", TRUE)
    THEN [missing_points |-> Get(landmarks, "_missing_points", <<>>),
          all_visible |-> FALSE]
    ELSE
    LET x == [p \in NeckPoints |-> X(landmarks[p])]
        crossed_right == [p \in NeckPoints |-> x[p] > MIDPOINT_X]
        crossed_left == [p \in NeckPoints |-> x[p] < MIDPOINT_X]
    IN  [all_visible |-> TRUE,
         x |-> x,
         all_crossed_right |-> \A p \in NeckPoints : crossed_right[p],
         crossed_right |-> crossed_right,
         all_crossed_left |-> \A p \in NeckPoints : crossed_left[p],
         crossed_left |-> crossed_left]

point_names ==
    [LEFT_SHOULDER |-> "Left shoulder", RIGHT_SHOULDER |-> "Right shoulder",
     LEFT_ELBOW |-> "Left elbow", RIGHT_ELBOW |-> "Right elbow",
     LEFT_WRIST |-> "Left wrist", RIGHT_WRIST |-> "Right wrist"]

\* missing_names: point_names.get(p, p) for each missing point
NeckSideToSide_missing_names(metrics) ==
    LET missing_points == Get(metrics, "missing_points", <<>>)
    IN  [i \in DOMAIN missing_points |->
            Get(point_names, missing_points[i], missing_points[i])]

\* An early return that forgets which side the points were on
NeckSideToSide_not_visible_forgets(self, metrics) ==
    [self |-> [self EXCEPT !.left_was_crossed = FALSE, !.right_was_crossed = FALSE],
     result |-> ValidationResult(
                 FALSE,
                 <<"cannot_see_all_points",
                   "   Missing: " \o join(", ", NeckSideToSide_missing_names(metrics)),
                   "move_into_frame", "both_arms_visible">>,
                 0,
                 [missing_points |-> Get(metrics, "missing_points", <<>>),
                  all_visible |-> FALSE])]

\* "Check if all points are visible first": the early return
NeckSideToSide_not_visible(self, metrics) ==
    [self |-> self,
     result |-> ValidationResult(
                 FALSE,
                 <<"cannot_see_all_points",
                   "   Missing: " \o join(", ", NeckSideToSide_missing_names(metrics)),
                   "move_into_frame", "both_arms_visible">>,
                 0,
                 [missing_points |-> Get(metrics, "missing_points", <<>>),
                  all_visible |-> FALSE])]

\* RIGHT TILT CHECK
NeckSideToSide_right_tilt(metrics) ==
    LET missing == Cardinality({p \in NeckPoints : ~metrics.crossed_right[p]})
    IN  IF metrics.all_crossed_right
        THEN [feedback |-> <<"right_tilt_all_crossed">>, is_correct |-> TRUE,
              score |-> Points(100)]
        ELSE IF missing > 0
        THEN [feedback |-> <<"right_tilt_not_crossing", "all_six_right">>,
              is_correct |-> FALSE,
              score |-> ((6 - missing) * Points(100)) \div 6]
        ELSE [feedback |-> <<"tilt_head_right">>, is_correct |-> FALSE, score |-> 0]

\* A left tilt check that keeps the right direction's partial score when it
\* is the better one
NeckSideToSide_left_tilt_keeps_best(metrics, right) ==
    LET missing == Cardinality({p \in NeckPoints : ~metrics.crossed_left[p]})
    IN  IF metrics.all_crossed_left
        THEN [feedback |-> <<"left_tilt_all_crossed">>, is_correct |-> TRUE,
              score |-> Points(100)]
        ELSE IF ~metrics.all_crossed_right
        THEN IF missing > 0
             THEN [feedback |-> <<"left_tilt_not_crossing", "all_six_left">>,
                   is_correct |-> right.is_correct,
                   score |-> Max(right.score, ((6 - missing) * Points(100)) \div 6)]
             ELSE [feedback |-> IF right.score = 0 THEN <<"tilt_head_left">> ELSE <<>>,
                   is_correct |-> right.is_correct, score |-> 0]
        ELSE [feedback |-> <<>>, is_correct |-> right.is_correct,
              score |-> right.score]

\* LEFT TILT CHECK, starting from the right tilt check's is_correct and score
NeckSideToSide_left_tilt(metrics, right) ==
    LET missing == Cardinality({p \in NeckPoints : ~metrics.crossed_left[p]})
    IN  IF metrics.all_crossed_left
        THEN [feedback |-> <<"left_tilt_all_crossed">>, is_correct |-> TRUE,
              score |-> Points(100)]
        ELSE IF ~metrics.all_crossed_right
        THEN IF missing > 0
             THEN [feedback |-> <<"left_tilt_not_crossing", "all_six_left">>,
                   is_correct |-> right.is_correct,
                   score |-> ((6 - missing) * Points(100)) \div 6]
             ELSE [feedback |-> IF right.score = 0 THEN <<"tilt_head_left">> ELSE <<>>,
                   is_correct |-> right.is_correct, score |-> 0]
        ELSE [feedback |-> <<>>, is_correct |-> right.is_correct,
              score |-> right.score]

\* The rep counted when the points cross, not when they come back
NeckSideToSide_count_side_rising(all_crossed, was_crossed) ==
    IF all_crossed /\ ~was_crossed THEN [was_crossed |-> TRUE, counted |-> 1]
    ELSE IF ~all_crossed /\ was_crossed THEN [was_crossed |-> FALSE, counted |-> 0]
    ELSE [was_crossed |-> was_crossed, counted |-> 0]

\* "Rep counting: increment when all points cross, then return to neutral",
\* for one direction: the new flag and whether a rep was counted
NeckSideToSide_count_side(all_crossed, was_crossed) ==
    IF all_crossed /\ ~was_crossed THEN [was_crossed |-> TRUE, counted |-> 0]
    ELSE IF ~all_crossed /\ was_crossed THEN [was_crossed |-> FALSE, counted |-> 1]
    ELSE [was_crossed |-> was_crossed, counted |-> 0]

NeckSideToSide_validate_form(self, metrics, frame_count_arg) ==
    IF ~Get(metrics, "all_visible", TRUE)
    THEN NeckSideToSide_not_visible(self, metrics)
    ELSE
    LET right == NeckSideToSide_right_tilt(metrics)
        left == NeckSideToSide_left_tilt(metrics, right)
        r == NeckSideToSide_count_side(metrics.all_crossed_right,
                                       self.right_was_crossed)
        l == NeckSideToSide_count_side(metrics.all_crossed_left,
                                       self.left_was_crossed)
        right_reps == self.right_reps + r.counted
        left_reps == self.left_reps + l.counted
        rep_count == self.rep_count + r.counted + l.counted
    IN  [self |-> [self EXCEPT !.right_reps = right_reps,
                               !.left_reps = left_reps,
                               !.rep_count = rep_count,
                               !.right_was_crossed = r.was_crossed,
                               !.left_was_crossed = l.was_crossed],
         result |-> ValidationResult(
                     left.is_correct,
                     right.feedback \o left.feedback
                     \o (IF r.counted = 1 THEN <<"right_rep_complete">> ELSE <<>>)
                     \o (IF l.counted = 1 THEN <<"left_rep_complete">> ELSE <<>>),
                     left.score,
                     [all_crossed_right |-> metrics.all_crossed_right,
                      all_crossed_left |-> metrics.all_crossed_left,
                      reps |-> rep_count,
                      left_reps |-> left_reps,
                      right_reps |-> right_reps])]

\* ------------------------------------------------------------------------
\* ExerciseFactory.create and dynamic dispatch on the instance's class
\* ------------------------------------------------------------------------

ExerciseIds == {"scoliosis_cat_cow", "wall_angels", "chest_opener_retraction",
                "neck_side_to_side"}

\* A factory whose Cat-Cow instances start with a rep already counted
ExerciseFactory_create_counted(exercise_id) ==
    CASE exercise_id = "scoliosis_cat_cow" -> [CatCowPose_init EXCEPT !.rep_count = 1]
      [] exercise_id = "wall_angels" -> WallAngels_init
      [] exercise_id = "chest_opener_retraction" -> ChestOpener_init
      [] exercise_id = "neck_side_to_side" -> NeckSideToSide_init

ExerciseFactory_create(exercise_id) ==
    CASE exercise_id = "scoliosis_cat_cow" -> CatCowPose_init
      [] exercise_id = "wall_angels" -> WallAngels_init
      [] exercise_id = "chest_opener_retraction" -> ChestOpener_init
      [] exercise_id = "neck_side_to_side" -> NeckSideToSide_init

calculate_metrics(self, landmarks) ==
    CASE self.cls = "scoliosis_cat_cow" -> CatCowPose_calculate_metrics(landmarks)
      [] self.cls = "wall_angels" -> WallAngels_calculate_metrics(landmarks)
      [] self.cls = "chest_opener_retraction" -> ChestOpener_calculate_metrics(landmarks)
      [] self.cls = "neck_side_to_side" -> NeckSideToSide_calculate_metrics(landmarks)

validate_form(self, metrics, frame_count_arg) ==
    CASE self.cls = "scoliosis_cat_cow" ->
             CatCowPose_validate_form(self, metrics, frame_count_arg)
      [] self.cls = "wall_angels" ->
             WallAngels_validate_form(self, metrics, frame_count_arg)
      [] self.cls = "chest_opener_retraction" ->
             ChestOpener_validate_form(self, metrics, frame_count_arg)
      [] self.cls = "neck_side_to_side" ->
             NeckSideToSide_validate_form(self, metrics, frame_count_arg)

reset(self) ==
    CASE self.cls = "scoliosis_cat_cow" -> CatCowPose_reset(self)
      [] self.cls = "wall_angels" -> WallAngels_reset(self)
      [] self.cls = "chest_opener_retraction" -> ChestOpener_reset(self)
      [] self.cls = "neck_side_to_side" -> NeckSideToSide_reset(self)

\* ------------------------------------------------------------------------
\* ExerciseFactory (exercises/exercise_factory.py): the class-level registry
\* _exercises, a dict (kept here as the sequence of its items, in insertion
\* order), and the _initialized flag
\* ------------------------------------------------------------------------

\* exercise_class.__module__, as its dotted path: names separated by "."
CatCowPose ==
    [name |-> "CatCowPose",
     module |-> <<"exercises", ".", "scoliosis", ".", "cat_cow">>]

WallAngels ==
    [name |-> "WallAngels",
     module |-> <<"exercises", ".", "scoliosis", ".", "wall_angels">>]

ChestOpener ==
    [name |-> "ChestOpener",
     module |-> <<"exercises", ".", "scoliosis", ".", "chest_opener">>]

NeckSideToSide ==
    [name |-> "NeckSideToSide",
     module |-> <<"exercises", ".", "scoliosis", ".", "neck_side_to_side">>]

\* The classes of the docstrings' examples: one in another subfolder of the
\* exercises package, one defined outside the package
ShoulderRotation ==
    [name |-> "ShoulderRotation",
     module |-> <<"exercises", ".", "shoulder", ".", "shoulder_rotation">>]

BasicStretch ==
    [name |-> "BasicStretch", module |-> <<"basic_stretch">>]

\* exercise_class(): the constructor
Instantiate(exercise_class) ==
    CASE exercise_class.name = "CatCowPose" -> CatCowPose_init
      [] exercise_class.name = "WallAngels" -> WallAngels_init
      [] exercise_class.name = "ChestOpener" -> ChestOpener_init
      [] exercise_class.name = "NeckSideToSide" -> NeckSideToSide_init
      [] OTHER -> [cls |-> exercise_class.name, rep_count |-> 0]

\* dict operations on a sequence of items [key, value]
dict_keys(dict) == [i \in DOMAIN dict |-> dict[i].key]

dict_has(dict, key) == \E i \in DOMAIN dict : dict[i].key = key

dict_get(dict, key) == dict[CHOOSE i \in DOMAIN dict : dict[i].key = key].value

\* dict[key] = value: an existing key keeps its place
dict_set(dict, key, value) ==
    IF dict_has(dict, key)
    THEN [i \in DOMAIN dict |->
             IF dict[i].key = key THEN [key |-> key, value |-> value] ELSE dict[i]]
    ELSE Append(dict, [key |-> key, value |-> value])

\* Python's order on the strings used as ids and categories
StringOrder ==
    <<"basic_stretch", "chest_opener_retraction", "general", "neck_side_to_side",
      "scoliosis", "scoliosis_cat_cow", "shoulder", "shoulder_rotation",
      "unknown_exercise", "wall_angels">>

str_lt(a, b) ==
    (CHOOSE i \in DOMAIN StringOrder : StringOrder[i] = a)
        < (CHOOSE i \in DOMAIN StringOrder : StringOrder[i] = b)

\* sorted(list) / list.sort(), by insertion
RECURSIVE insert_sorted(_, _)
insert_sorted(list, item) ==
    IF list = <<>> THEN <<item>>
    ELSE IF str_lt(item, Head(list)) THEN <<item>> \o list
    ELSE <<Head(list)>> \o insert_sorted(Tail(list), item)

RECURSIVE sorted(_)
sorted(list) ==
    IF list = <<>> THEN <<>>
    ELSE insert_sorted(sorted(SubSeq(list, 1, Len(list) - 1)), list[Len(list)])

\* module_path.split('.'), the path given name by name with its dots
RECURSIVE split(_)
split(module_path) ==
    IF module_path = <<>> THEN <<"">>
    ELSE LET rest == split(Tail(module_path))
         IN  IF Head(module_path) = "." THEN <<"">> \o rest
             ELSE <<Head(module_path) \o Head(rest)>> \o Tail(rest)

\* A decorator that keeps the class registered first
ExerciseFactory_register_keep_first(exercises, exercise_id, exercise_class) ==
    [exercises |-> IF dict_has(exercises, exercise_id) THEN exercises
                   ELSE dict_set(exercises, exercise_id, exercise_class),
     printed |-> (IF dict_has(exercises, exercise_id)
                  THEN <<"Warning: Exercise '" \o exercise_id
                         \o "' is already registered. Overwriting.">>
                  ELSE <<>>)
                 \o <<"Registered exercise: " \o exercise_id>>,
     raised |-> "none",
     returned |-> exercise_class]

\* ExerciseFactory.register(exercise_id)(exercise_class): the decorator applied
ExerciseFactory_register(exercises, exercise_id, exercise_class) ==
    [exercises |-> dict_set(exercises, exercise_id, exercise_class),
     printed |-> (IF dict_has(exercises, exercise_id)
                  THEN <<"Warning: Exercise '" \o exercise_id
                         \o "' is already registered. Overwriting.">>
                  ELSE <<>>)
                 \o <<"Registered exercise: " \o exercise_id>>,
     raised |-> "none",
     returned |-> exercise_class]

\* The modules pkgutil.walk_packages finds under exercises/, in its order;
\* importing one runs the @ExerciseFactory.register decorator of its class
DiscoveredModules ==
    <<[exercise_id |-> "scoliosis_cat_cow", exercise_class |-> CatCowPose],
      [exercise_id |-> "chest_opener_retraction", exercise_class |-> ChestOpener],
      [exercise_id |-> "neck_side_to_side", exercise_class |-> NeckSideToSide],
      [exercise_id |-> "wall_angels", exercise_class |-> WallAngels]>>

\* importlib.import_module of each module found: one that is already in
\* sys.modules is not executed again, so its decorator does not run
RECURSIVE import_modules(_, _, _)
import_modules(exercises, modules, sys_modules) ==
    IF modules = <<>> THEN exercises
    ELSE import_modules(
             IF Head(modules).exercise_class.module \in sys_modules
             THEN exercises
             ELSE ExerciseFactory_register(exercises, Head(modules).exercise_id,
                                           Head(modules).exercise_class).exercises,
             Tail(modules), sys_modules)

\* A discovery that executes every module again
ExerciseFactory_auto_discover_reimport(exercises, initialized, sys_modules) ==
    IF initialized THEN [exercises |-> exercises, initialized |-> TRUE]
    ELSE [exercises |-> import_modules(exercises, DiscoveredModules, {}),
          initialized |-> TRUE]

ExerciseFactory_auto_discover(exercises, initialized, sys_modules) ==
    IF initialized THEN [exercises |-> exercises, initialized |-> TRUE]
    ELSE [exercises |-> import_modules(exercises, DiscoveredModules, sys_modules),
          initialized |-> TRUE]

\* The registry once exercise_factory has been imported: the module's last
\* line runs auto_discover on the empty registry, nothing being imported yet
RegistryAtStartup == ExerciseFactory_auto_discover(<<>>, FALSE, {}).exercises

\* sys.modules from then on
ImportedModules ==
    {DiscoveredModules[i].exercise_class.module : i \in DOMAIN DiscoveredModules}

NoInstance == [none |-> TRUE]

\* ExerciseFactory.create(exercise_id) on a registry: the registry as
\* auto_discover leaves it, and the instance or the ValueError.
\* (ExerciseFactory_create above is this on the registry found at startup.)
ExerciseFactory_create_in(exercises, initialized, exercise_id) ==
    LET discovered ==
            ExerciseFactory_auto_discover(exercises, initialized, ImportedModules)
    IN  IF ~dict_has(discovered.exercises, exercise_id)
        THEN [exercises |-> discovered.exercises,
              initialized |-> discovered.initialized,
              raised |-> "ValueError",
              message |-> "Exercise '" \o exercise_id \o "' not found.\n"
                          \o "Available exercises: "
                          \o join(", ", sorted(dict_keys(discovered.exercises))),
              instance |-> NoInstance]
        ELSE [exercises |-> discovered.exercises,
              initialized |-> discovered.initialized,
              raised |-> "none",
              message |-> "",
              instance |-> Instantiate(dict_get(discovered.exercises, exercise_id))]

\* The category taken from the first component of the module path
category_of_package(exercise_class) ==
    split(exercise_class.module)[1]

\* "Extract category from module path"
category_of(exercise_class) ==
    LET parts == split(exercise_class.module)
    IN  IF Len(parts) >= 2 /\ parts[1] = "exercises" THEN parts[2] ELSE "general"

\* The loop over cls._exercises.items() of get_exercises_by_category
RECURSIVE group_by_category(_, _)
group_by_category(items, categories) ==
    IF items = <<>> THEN categories
    ELSE LET category == category_of(Head(items).value)
             with_category == IF category \in DOMAIN categories THEN categories
                              ELSE (category :> <<>>) @@ categories
         IN  group_by_category(
                 Tail(items),
                 [with_category EXCEPT ![category] = Append(@, Head(items).key)])

ExerciseFactory_get_exercises_by_category(exercises, initialized) ==
    LET discovered ==
            ExerciseFactory_auto_discover(exercises, initialized, ImportedModules)
        categories == group_by_category(discovered.exercises, <<>>)
    IN  [exercises |-> discovered.exercises,
         initialized |-> discovered.initialized,
         raised |-> "none",
         categories |-> [category \in DOMAIN categories |->
                             sorted(categories[category])]]

\* ExerciseFactory.reset(): "Clears all registered exercises"
ExerciseFactory_reset ==
    [exercises |-> <<>>, initialized |-> FALSE]

\* ------------------------------------------------------------------------
\* Inputs
\* ------------------------------------------------------------------------

\* Metrics a caller of CatCowPose.validate_form may pass
SpineValues == {-40, -20, -10, 10, 20, 40}

\* shoulder_alignment, hip_alignment, symmetry_diff, head_alignment: all within
\* tolerance, the symmetry alone beyond it, all beyond it
CatCowAlignments ==
    {<<10, 10, 10, 10>>, <<10, 10, 20, 10>>, <<20, 20, 20, 30>>}

CatCowMetrics ==
    {[spine_curvature |-> s, shoulder_alignment |-> a[1], hip_alignment |-> a[2],
      symmetry_diff |-> a[3], head_alignment |-> a[4]] :
        s \in SpineValues, a \in CatCowAlignments}

\* A rounded, a flat and an arched spine in good alignment
CycleSpineValues == {-20, 0, 20}

CatCowCycleMetrics ==
    {[spine_curvature |-> s, shoulder_alignment |-> 10, hip_alignment |-> 10,
      symmetry_diff |-> 10, head_alignment |-> 10] : s \in CycleSpineValues}

\* Metrics a caller of WallAngels.validate_form may pass: the arm angles, with
\* the symmetry and the average derived as calculate_metrics derives them
ArmAngles == {<<90, 90>>, <<180, 180>>, <<130, 130>>, <<70, 110>>, <<180, 140>>}

\* left_elbow_forward, right_elbow_forward, torso_angle
WallAngelsAlignments ==
    {<<10, 10, 10>>, <<20, 10, 10>>, <<20, 20, 20>>}

WallAngelsMetrics ==
    {[left_arm_angle |-> arms[1], right_arm_angle |-> arms[2],
      arm_symmetry_diff |-> Abs(arms[1] - arms[2]),
      avg_arm_angle |-> (arms[1] + arms[2]) \div 2,
      left_elbow_forward |-> a[1], right_elbow_forward |-> a[2],
      torso_angle |-> a[3]] :
        arms \in ArmAngles, a \in WallAngelsAlignments}

\* Chest Opener landmarks: shoulders at y = 50; an elbow above the shoulder
\* (40), level with it (50), below it within the tolerance (55) or below (70)
Point(x, y) == <<x, y, 0>>

MaxHiddenFrame == 3

\* (left elbow y, right elbow y)
ElbowHeights == {<<40, 40>>, <<50, 50>>, <<55, 55>>, <<70, 70>>, <<70, 40>>,
                 <<55, 70>>}

ChestVisibleLandmarks ==
    {[LEFT_SHOULDER |-> Point(40, 50), RIGHT_SHOULDER |-> Point(60, 50),
      LEFT_ELBOW |-> Point(30, e[1]), RIGHT_ELBOW |-> Point(70, e[2])] :
        e \in ElbowHeights}

Without(dict, keys) == [k \in (DOMAIN dict) \ keys |-> dict[k]]

\* ... and dicts from which an elbow key is absent
ChestLandmarks ==
    ChestVisibleLandmarks
    \cup {Without(lm, ks) :
            lm \in {l \in ChestVisibleLandmarks :
                      Y(l.LEFT_ELBOW) = 40 /\ Y(l.RIGHT_ELBOW) = 40},
            ks \in {{"LEFT_ELBOW"}, {"LEFT_ELBOW", "RIGHT_ELBOW"}}}

\* An elbow key is absent only on the early frames
ChestOpenerMetrics(f) ==
    {ChestOpener_calculate_metrics(lm) :
        lm \in {l \in ChestLandmarks :
                  f <= MaxHiddenFrame \/ {"LEFT_ELBOW", "RIGHT_ELBOW"} \subseteq DOMAIN l}}

\* Neck landmarks: each of the six points left of, on, or right of the midline
NeckXs == {40, 50, 60}

\* One assignment for each number of points right of, on and left of the
\* midline (the validator treats the six points alike)
NeckOrder == <<"LEFT_SHOULDER", "RIGHT_SHOULDER", "LEFT_ELBOW", "RIGHT_ELBOW",
               "LEFT_WRIST", "RIGHT_WRIST">>

NeckAssignments ==
    {xs \in [NeckPoints -> NeckXs] :
        \A i \in 1 .. 5 : xs[NeckOrder[i]] >= xs[NeckOrder[i + 1]]}

\* main.py's visibility flags on an extracted landmark dict
flag_visibility(landmarks, visible, missing_landmarks) ==
    IF ~visible
    THEN ("_all_visible" :> FALSE) @@ ("_missing_points" :> missing_landmarks)
         @@ landmarks
    ELSE ("_all_visible" :> TRUE) @@ landmarks

NeckPoses == {[p \in NeckPoints |-> Point(xs[p], 50)] : xs \in NeckAssignments}

NeckVisibleLandmarks == {flag_visibility(lm, TRUE, <<>>) : lm \in NeckPoses}

NeckHiddenLandmarks ==
    {flag_visibility(lm, FALSE, <<"LEFT_WRIST">>) :
        lm \in {l \in NeckPoses : \A p \in NeckPoints : X(l[p]) = 40}}

NeckLandmarks == NeckVisibleLandmarks \cup NeckHiddenLandmarks

NeckSideToSideMetrics == {NeckSideToSide_calculate_metrics(lm) : lm \in NeckLandmarks}

\* Frame indices a caller passes, per exercise
MaxFrameCatCow == 2
MaxFrameCycle == 7
MaxFrameWallAngels == 4
MaxFrameChestOpener == 62
MaxFrameNeck == 4
MaxGap == 2

\* Cat-Cow: the next frame up to the bound, or one of two late frames, so
\* that a transition can come sooner than TEMPO_MIN, within the window, and
\* later than TEMPO_MAX
LateFrames == {70, 230}

CatCowFrames(last) ==
    {f \in {last + 1} \cup LateFrames : f > last /\ (f <= MaxFrameCatCow \/ f \in LateFrames)}

\* Wall Angels and Neck: the next frame or a later one, up to the bound
FramesAfter(last, max_frame) ==
    {f \in 0 .. max_frame : last < f /\ f <= last + MaxGap}

\* Chest Opener: the camera loop's frames from the first one validated on
ConsecutiveFrames(last, max_frame) ==
    {f \in 0 .. max_frame : IF last = NoFrame THEN f <= MaxGap ELSE f = last + 1}

WallAngelsFrames(last) == FramesAfter(last, MaxFrameWallAngels)

ChestOpenerFrames(last) == ConsecutiveFrames(last, MaxFrameChestOpener)

NeckFrames(last) == FramesAfter(last, MaxFrameNeck)

\* ------------------------------------------------------------------------
\* The observer: what somebody watching the calls and their results has seen
\* since the instance was constructed or last reset
\* ------------------------------------------------------------------------

\* The spec's Cat-Cow example: spine curvatures of eight successive frames
ExampleSpine == <<-20, -20, -20, 20, 20, 20, -20, -20>>

OffExample == 0 - 1

MonitorInit(self) ==
    CASE self.cls = "scoliosis_cat_cow" ->
             [op |-> "init",
              phase |-> STATE_NEUTRAL,   \* the phase the previous call reported
              q |-> 0,                   \* direct CAT<->COW changes seen
              example |-> 0]             \* how much of ExampleSpine was fed
      [] self.cls = "wall_angels" ->
             [op |-> "init",
              last_nt |-> "none",        \* the last phase reported that is not TRANSITION
              seen_down |-> FALSE,       \* some call reported ARMS_DOWN
              due |-> FALSE]             \* the latest call returned to DOWN after UP after DOWN
      [] self.cls = "chest_opener_retraction" ->
             [op |-> "init",
              visible |-> FALSE,         \* the latest frame: both elbows visible
              start_ok |-> FALSE,        \* the latest frame: start_position_ok
              both_below |-> FALSE,      \* the latest frame: both_below_shoulders
              run |-> 0,                 \* consecutive both-below frames ending with the latest
              ended |-> "none",          \* the run that ended last, none having begun since:
                                         \* "short", "exact" or "long" against HOLD_FRAMES
              break_visible |-> FALSE,   \* the frame that ended it had both elbows visible
              clean |-> FALSE,           \* that run (or the current one) began with
                                         \* hold_counter 0 and no completed hold
              rep_at_run_start |-> 0]    \* rep_count when that run (or the current one) began
      [] self.cls = "neck_side_to_side" ->
             [op |-> "init",
              visible |-> FALSE,         \* the latest frame: all points visible
              right |-> FALSE,           \* all_crossed_right on the last visible frame
              left |-> FALSE,            \* all_crossed_left on the last visible frame
              fell_right |-> FALSE,      \* the latest frame is a right falling edge
              fell_left |-> FALSE]       \* the latest frame is a left falling edge

ObserveCatCow(mon, self, metrics, out) ==
    LET phase == out.result.details.state
        direct == \/ (mon.phase = STATE_CAT /\ phase = STATE_COW)
                  \/ (mon.phase = STATE_COW /\ phase = STATE_CAT)
    IN  [op |-> "validate_form",
         phase |-> phase,
         q |-> mon.q + (IF direct THEN 1 ELSE 0),
         example |-> IF /\ mon.example # OffExample
                        /\ mon.example < Len(ExampleSpine)
                        /\ metrics.spine_curvature = ExampleSpine[mon.example + 1]
                     THEN mon.example + 1 ELSE OffExample]

ObserveWallAngels(mon, self, metrics, out) ==
    LET phase == out.result.details.state
    IN  [op |-> "validate_form",
         last_nt |-> IF phase = STATE_TRANSITION THEN mon.last_nt ELSE phase,
         seen_down |-> mon.seen_down \/ phase = STATE_ARMS_DOWN,
         due |-> /\ phase = STATE_ARMS_DOWN
                 /\ mon.last_nt = STATE_ARMS_UP
                 /\ mon.seen_down]

\* A frame belongs to a run when the elbows are visible, the start position
\* has been validated (on this frame at the latest) and both are below.
ObserveChestOpener(mon, self, metrics, out) ==
    LET visible == Get(metrics, "left_elbow_visible", TRUE)
                   /\ Get(metrics, "right_elbow_visible", TRUE)
        both_below == Get(metrics, "both_below_shoulders", FALSE)
        in_run == visible /\ both_below /\ out.self.start_position_validated
        begins == in_run /\ mon.run = 0
        ends == ~in_run /\ mon.run > 0
    IN  [op |-> "validate_form",
         visible |-> visible,
         start_ok |-> Get(metrics, "start_position_ok", FALSE),
         both_below |-> both_below,
         run |-> IF in_run THEN Min(mon.run + 1, HOLD_FRAMES + 1) ELSE 0,
         ended |-> IF in_run THEN "none"
                   ELSE IF ~ends THEN mon.ended
                   ELSE IF mon.run < HOLD_FRAMES THEN "short"
                   ELSE IF mon.run = HOLD_FRAMES THEN "exact"
                   ELSE "long",
         break_visible |-> IF in_run THEN FALSE
                           ELSE IF ends THEN visible ELSE mon.break_visible,
         clean |-> IF begins THEN self.hold_counter = 0 /\ ~self.hold_complete
                   ELSE mon.clean,
         rep_at_run_start |-> IF begins THEN self.rep_count
                              ELSE mon.rep_at_run_start]

ObserveNeck(mon, self, metrics, out) ==
    LET visible == Get(metrics, "all_visible", TRUE)
    IN  IF ~visible
        THEN [mon EXCEPT !.op = "validate_form", !.visible = FALSE,
                         !.fell_right = FALSE, !.fell_left = FALSE]
        ELSE [op |-> "validate_form",
              visible |-> TRUE,
              right |-> metrics.all_crossed_right,
              left |-> metrics.all_crossed_left,
              fell_right |-> mon.right /\ ~metrics.all_crossed_right,
              fell_left |-> mon.left /\ ~metrics.all_crossed_left]

Observe(mon, self, metrics, out) ==
    CASE self.cls = "scoliosis_cat_cow" -> ObserveCatCow(mon, self, metrics, out)
      [] self.cls = "wall_angels" -> ObserveWallAngels(mon, self, metrics, out)
      [] self.cls = "chest_opener_retraction" -> ObserveChestOpener(mon, self, metrics, out)
      [] self.cls = "neck_side_to_side" -> ObserveNeck(mon, self, metrics, out)

\* ------------------------------------------------------------------------
\* The validator interface: validate_form(metrics, frame_count) and reset()
\* called directly, with strictly increasing frame indices between resets
\* ------------------------------------------------------------------------

\* One validate_form call on the instance (and on its twin)
Call(metrics, frame_count_arg) ==
    LET out == validate_form(exercise, metrics, frame_count_arg)
        twin_out == IF twin = NoTwin THEN [self |-> NoTwin, result |-> NoResult]
                    ELSE validate_form(twin, metrics, frame_count_arg)
    IN  /\ exercise' = out.self
        /\ result' = out.result
        /\ prev_frame' = last_frame
        /\ last_frame' = frame_count_arg
        /\ twin' = twin_out.self
        /\ twin_result' = twin_out.result
        /\ monitor' = Observe(monitor, exercise, metrics, out)
        /\ UNCHANGED factory_vars

\* One reset() call; from here on a newly constructed twin is fed the same calls
ResetCall ==
    /\ exercise' = reset(exercise)
    /\ result' = NoResult
    /\ prev_frame' = NoFrame
    /\ last_frame' = NoFrame
    /\ twin' = ExerciseFactory_create(exercise.cls)
    /\ twin_result' = NoResult
    /\ monitor' = [MonitorInit(exercise) EXCEPT !.op = "reset"]
    /\ UNCHANGED factory_vars

Init ==
    /\ exercise \in {ExerciseFactory_create(id) : id \in ExerciseIds}
    /\ result = NoResult
    /\ last_frame = NoFrame
    /\ prev_frame = NoFrame
    /\ twin = NoTwin
    /\ twin_result = NoResult
    /\ monitor = MonitorInit(exercise)
    /\ running = FALSE
    /\ frame_count = 0
    /\ in_session = FALSE
    /\ entries = 0
    /\ pose_detected = FALSE
    /\ all_visible = FALSE
    /\ _exercises = RegistryAtStartup
    /\ _initialized = TRUE
    /\ factory_out = [op |-> "auto_discover"]
    /\ registrations = [id \in ExerciseIds |-> dict_get(RegistryAtStartup, id)]

ValidateCatCow ==
    /\ exercise.cls = "scoliosis_cat_cow"
    /\ \E metrics \in CatCowMetrics, f \in CatCowFrames(last_frame) :
        Call(metrics, f)
    /\ UNCHANGED app_vars

\* Cat-Cow cycles filmed frame after frame from frame 0 on
ValidateCatCowCycle ==
    /\ exercise.cls = "scoliosis_cat_cow"
    /\ last_frame < MaxFrameCycle
    /\ \E metrics \in CatCowCycleMetrics : Call(metrics, last_frame + 1)
    /\ UNCHANGED app_vars

ValidateWallAngels ==
    /\ exercise.cls = "wall_angels"
    /\ \E metrics \in WallAngelsMetrics, f \in WallAngelsFrames(last_frame) :
        Call(metrics, f)
    /\ UNCHANGED app_vars

ValidateChestOpener ==
    /\ exercise.cls = "chest_opener_retraction"
    /\ \E f \in ChestOpenerFrames(last_frame) :
        \E metrics \in ChestOpenerMetrics(f) : Call(metrics, f)
    /\ UNCHANGED app_vars

ValidateNeck ==
    /\ exercise.cls = "neck_side_to_side"
    /\ \E metrics \in NeckSideToSideMetrics, f \in NeckFrames(last_frame) :
        Call(metrics, f)
    /\ UNCHANGED app_vars

Reset ==
    /\ ResetCall
    /\ UNCHANGED app_vars

Next ==
    \/ ValidateCatCow
    \/ ValidateWallAngels
    \/ ValidateChestOpener
    \/ ValidateNeck
    \/ Reset

Spec == Init /\ [][Next]_vars

\* One exercise at a time
InitFor(exercise_id) == Init /\ exercise.cls = exercise_id

SpecCatCow ==
    InitFor("scoliosis_cat_cow") /\ [][ValidateCatCow \/ Reset]_vars

SpecCatCowCycle ==
    InitFor("scoliosis_cat_cow") /\ [][ValidateCatCowCycle \/ Reset]_vars

SpecWallAngels ==
    InitFor("wall_angels") /\ [][ValidateWallAngels \/ Reset]_vars

SpecChestOpener ==
    InitFor("chest_opener_retraction") /\ [][ValidateChestOpener \/ Reset]_vars

SpecNeck ==
    InitFor("neck_side_to_side") /\ [][ValidateNeck \/ Reset]_vars

\* ------------------------------------------------------------------------
\* The application (main.py): the Streamlit script, which runs from the top
\* on every button press or selection, and run_session's camera loop
\* ------------------------------------------------------------------------

MaxAppFrame == 1
MaxEntries == 2

\* What the camera shows, as extract_landmarks returns it: every required
\* landmark, whatever its visibility.  Cat-Cow from the side, left and right
\* landmarks coinciding: a flat back, an arched one, a rounded one
Sides(shoulder, hip, knee, wrist, nose) ==
    [NOSE |-> nose, LEFT_SHOULDER |-> shoulder, RIGHT_SHOULDER |-> shoulder,
     LEFT_WRIST |-> wrist, RIGHT_WRIST |-> wrist, LEFT_HIP |-> hip,
     RIGHT_HIP |-> hip, LEFT_KNEE |-> knee, RIGHT_KNEE |-> knee]

CatCowPoses ==
    {Sides(Point(30, 40), Point(50, 40), Point(70, 40), Point(30, 60), Point(20, 40)),
     Sides(Point(30, 40), Point(50, 40), Point(50, 60), Point(30, 60), Point(20, 40)),
     Sides(Point(30, 60), Point(50, 40), Point(50, 60), Point(30, 80), Point(20, 60))}

\* Wall Angels from the front: arms level, raised, half raised, and raised
\* with the elbows forward of the shoulders
Arms(left_elbow, left_wrist, right_elbow, right_wrist) ==
    [NOSE |-> Point(50, 30), LEFT_SHOULDER |-> Point(40, 40),
     RIGHT_SHOULDER |-> Point(60, 40), LEFT_ELBOW |-> left_elbow,
     RIGHT_ELBOW |-> right_elbow, LEFT_WRIST |-> left_wrist,
     RIGHT_WRIST |-> right_wrist, LEFT_HIP |-> Point(40, 80),
     RIGHT_HIP |-> Point(60, 80)]

WallAngelsPoses ==
    {Arms(Point(30, 40), Point(20, 40), Point(70, 40), Point(80, 40)),
     Arms(Point(40, 26), Point(40, 10), Point(60, 26), Point(60, 10)),
     Arms(Point(30, 30), Point(20, 20), Point(70, 30), Point(80, 20)),
     Arms(<<40, 26, 20>>, Point(40, 10), <<60, 26, 20>>, Point(60, 10))}

ChestOpenerPoses ==
    {lm \in ChestVisibleLandmarks : Y(lm.LEFT_ELBOW) = Y(lm.RIGHT_ELBOW)}

\* Neck: all six points on one side of the midline or on it
NeckAppPoses ==
    {lm \in NeckPoses : \A p \in NeckPoints : X(lm[p]) = X(lm.LEFT_SHOULDER)}

Poses(self) ==
    CASE self.cls = "scoliosis_cat_cow" -> CatCowPoses
      [] self.cls = "wall_angels" -> WallAngelsPoses
      [] self.cls = "chest_opener_retraction" -> ChestOpenerPoses
      [] self.cls = "neck_side_to_side" -> NeckAppPoses

\* run_session is entered: its local frame_count starts at 0
EnterSession ==
    /\ in_session' = TRUE
    /\ frame_count' = 0
    /\ entries' = entries + 1
    /\ UNCHANGED <<pose_detected, all_visible>>

\* The script ends without entering run_session
NoSession ==
    /\ in_session' = FALSE
    /\ UNCHANGED <<frame_count, entries, pose_detected, all_visible>>

\* The end of main(): "if st.session_state.get('running', False): run_session(...)"
RunIfRunning(is_running) ==
    IF is_running THEN entries < MaxEntries /\ EnterSession ELSE NoSession

Untouched == UNCHANGED <<validator_vars, factory_vars>>

\* Start button: the script runs again with start = True
PressStart ==
    /\ running' = TRUE
    /\ RunIfRunning(TRUE)
    /\ Untouched

\* Stop button: running = False and exercise.reset()
PressStop ==
    /\ running' = FALSE
    /\ ResetCall
    /\ RunIfRunning(FALSE)

\* Reset Exercise button: exercise.reset(), then st.rerun()
PressReset ==
    /\ ResetCall
    /\ UNCHANGED running
    /\ RunIfRunning(running)

\* Another exercise is selected: a new instance replaces the current one
SelectExercise ==
    /\ \E selected_id \in ExerciseIds \ {exercise.cls} :
        /\ exercise' = ExerciseFactory_create(selected_id)
        /\ twin' = NoTwin
        /\ monitor' = MonitorInit(ExerciseFactory_create(selected_id))
    /\ result' = NoResult
    /\ twin_result' = NoResult
    /\ prev_frame' = NoFrame
    /\ last_frame' = NoFrame
    /\ UNCHANGED running
    /\ UNCHANGED factory_vars
    /\ RunIfRunning(running)

\* One loop iteration with a pose detected: the visibility flags, then
\* calculate_metrics, validate_form(metrics, frame_count), frame_count += 1
FrameWithPose ==
    /\ in_session /\ running
    /\ frame_count <= MaxAppFrame
    /\ \E pose \in Poses(exercise), visible \in BOOLEAN :
        LET landmarks == flag_visibility(pose, visible, <<"LEFT_WRIST">>)
            metrics == calculate_metrics(exercise, landmarks)
        IN  /\ Call(metrics, frame_count)
            /\ all_visible' = visible
    /\ pose_detected' = TRUE
    /\ frame_count' = frame_count + 1
    /\ UNCHANGED <<running, in_session, entries>>

\* One loop iteration without a pose: only frame_count += 1
FrameWithoutPose ==
    /\ in_session /\ running
    /\ frame_count <= MaxAppFrame
    /\ pose_detected' = FALSE
    /\ all_visible' = FALSE
    /\ frame_count' = frame_count + 1
    /\ UNCHANGED <<running, in_session, entries>>
    /\ Untouched

\* cap.read() fails: "Camera error", the loop is left with running still True
CameraError ==
    /\ in_session /\ running
    /\ in_session' = FALSE
    /\ UNCHANGED <<running, frame_count, entries, pose_detected, all_visible>>
    /\ Untouched

NextApp ==
    \/ PressStart
    \/ PressStop
    \/ PressReset
    \/ SelectExercise
    \/ FrameWithPose
    \/ FrameWithoutPose
    \/ CameraError

SpecApp == Init /\ [][NextApp]_vars

\* ------------------------------------------------------------------------
\* Two instances alive at once: the session's validator (exercise) and a
\* second one made by ExerciseFactory.create (twin), each called on its own.
\* Every attribute the validators write is set on self in __init__, so a
\* call on one instance reads and writes that instance's record only.
\* ------------------------------------------------------------------------

MaxFrameInstances == 3

\* A few metrics per exercise, enough to count a rep
InstanceMetrics(self) ==
    CASE self.cls = "scoliosis_cat_cow" -> CatCowCycleMetrics
      [] self.cls = "wall_angels" ->
             {m \in WallAngelsMetrics :
                 /\ m.left_arm_angle = m.right_arm_angle
                 /\ m.left_arm_angle \in {90, 180}
                 /\ m.left_elbow_forward <= MAX_ELBOW_FORWARD
                 /\ m.right_elbow_forward <= MAX_ELBOW_FORWARD}
      [] self.cls = "chest_opener_retraction" ->
             {ChestOpener_calculate_metrics(lm) :
                 lm \in {l \in ChestVisibleLandmarks :
                           Y(l.LEFT_ELBOW) = Y(l.RIGHT_ELBOW)
                           /\ Y(l.LEFT_ELBOW) \in {40, 70}}}
      [] self.cls = "neck_side_to_side" ->
             {NeckSideToSide_calculate_metrics(lm) :
                 lm \in {l \in NeckVisibleLandmarks :
                           \A p \in NeckPoints : X(l[p]) = X(l.LEFT_SHOULDER)}}

\* The classes the session left with reps counted
LeftWithReps ==
    IF "left_with_reps" \in DOMAIN monitor THEN monitor.left_with_reps ELSE {}

InstanceMonitor(op, target, exercise_id) ==
    [op |-> op, target |-> target, exercise_id |-> exercise_id,
     left_with_reps |-> LeftWithReps]

\* validate_form on the session's instance
ValidateSession ==
    /\ last_frame < MaxFrameInstances
    /\ \E metrics \in InstanceMetrics(exercise) :
        LET out == validate_form(exercise, metrics, last_frame + 1)
        IN  /\ exercise' = out.self
            /\ result' = out.result
    /\ prev_frame' = last_frame
    /\ last_frame' = last_frame + 1
    /\ monitor' = InstanceMonitor("validate_form", "exercise", exercise.cls)
    /\ UNCHANGED <<twin, twin_result, app_vars, factory_vars>>

\* validate_form on the second instance
ValidateOther ==
    /\ twin # NoTwin
    /\ last_frame < MaxFrameInstances
    /\ \E metrics \in InstanceMetrics(twin) :
        LET out == validate_form(twin, metrics, last_frame + 1)
        IN  /\ twin' = out.self
            /\ twin_result' = out.result
    /\ prev_frame' = last_frame
    /\ last_frame' = last_frame + 1
    /\ monitor' = InstanceMonitor("validate_form", "twin", twin.cls)
    /\ UNCHANGED <<exercise, result, app_vars, factory_vars>>

ResetSession ==
    /\ exercise' = reset(exercise)
    /\ result' = NoResult
    /\ monitor' = InstanceMonitor("reset", "exercise", exercise.cls)
    /\ UNCHANGED <<twin, twin_result, last_frame, prev_frame, app_vars, factory_vars>>

ResetOther ==
    /\ twin # NoTwin
    /\ twin' = reset(twin)
    /\ twin_result' = NoResult
    /\ monitor' = InstanceMonitor("reset", "twin", twin.cls)
    /\ UNCHANGED <<exercise, result, last_frame, prev_frame, app_vars, factory_vars>>

\* ExerciseFactory.create(exercise_id): the second instance is a new one
CreateOther ==
    /\ \E exercise_id \in ExerciseIds :
        /\ twin' = ExerciseFactory_create(exercise_id)
        /\ monitor' = InstanceMonitor("create", "twin", exercise_id)
    /\ twin_result' = NoResult
    /\ UNCHANGED <<exercise, result, last_frame, prev_frame, app_vars, factory_vars>>

\* main(): "if ... st.session_state.get('exercise_id') != selected_id:
\* st.session_state.current_exercise = ExerciseFactory.create(selected_id)"
SwitchExercise ==
    /\ \E selected_id \in ExerciseIds \ {exercise.cls} :
        /\ exercise' = ExerciseFactory_create(selected_id)
        /\ monitor' = [InstanceMonitor("select", "exercise", selected_id)
                          EXCEPT !.left_with_reps = IF exercise.rep_count > 0
                                          THEN @ \cup {exercise.cls} ELSE @]
    /\ result' = NoResult
    /\ UNCHANGED <<twin, twin_result, last_frame, prev_frame, app_vars, factory_vars>>

NextInstances ==
    \/ ValidateSession
    \/ ValidateOther
    \/ ResetSession
    \/ ResetOther
    \/ CreateOther
    \/ SwitchExercise

SpecInstances == Init /\ [][NextInstances]_vars

\* ------------------------------------------------------------------------
\* Cat-Cow and Wall Angels frame by frame, with every combination of the
\* position checks passing and failing, at and just beyond each threshold
\* ------------------------------------------------------------------------

MaxFrameCriteria == 1

\* Over-flexed and fully flexed Cat, the two ends of NEUTRAL, fully extended
\* and over-extended Cow
CriteriaSpineValues ==
    {-(MAX_SPINE_FLEX + 1), -MAX_SPINE_FLEX, -MIN_SPINE_FLEX, MIN_SPINE_EXT,
     MAX_SPINE_EXT, MAX_SPINE_EXT + 1}

CatCowCriteriaMetrics ==
    {[spine_curvature |-> s, shoulder_alignment |-> shoulder, hip_alignment |-> hip,
      symmetry_diff |-> symmetry, head_alignment |-> head] :
        s \in CriteriaSpineValues,
        shoulder \in {SHOULDER_WRIST_TOLERANCE, SHOULDER_WRIST_TOLERANCE + 1},
        hip \in {HIP_KNEE_TOLERANCE, HIP_KNEE_TOLERANCE + 1},
        symmetry \in {15, 16},
        head \in {20, 21}}

\* Arms level, raised, half raised, level at the largest difference allowed
\* and just beyond it
CriteriaArmAngles ==
    {<<90, 90>>, <<180, 180>>, <<130, 130>>,
     <<80, 80 + MAX_ARM_ANGLE_DIFF>>, <<79, 80 + MAX_ARM_ANGLE_DIFF>>}

WallAngelsCriteriaMetrics ==
    {[left_arm_angle |-> arms[1], right_arm_angle |-> arms[2],
      arm_symmetry_diff |-> Abs(arms[1] - arms[2]),
      avg_arm_angle |-> (arms[1] + arms[2]) \div 2,
      left_elbow_forward |-> left, right_elbow_forward |-> right,
      torso_angle |-> torso] :
        arms \in CriteriaArmAngles,
        left \in {MAX_ELBOW_FORWARD, MAX_ELBOW_FORWARD + 1},
        right \in {MAX_ELBOW_FORWARD, MAX_ELBOW_FORWARD + 1},
        torso \in {15, 16}}

CriteriaMetrics(self) ==
    IF self.cls = "scoliosis_cat_cow" THEN CatCowCriteriaMetrics
    ELSE WallAngelsCriteriaMetrics

\* What the frame's metrics and the phase reported for it say about the
\* criteria: hard, one that must make the frame incorrect; soft, a penalty
\* that must not (tempo, head, torso)
ObserveCriteria(self, metrics, out) ==
    LET phase == out.result.details.state
    IN  IF self.cls = "scoliosis_cat_cow"
        THEN [op |-> "validate_form",
              hard |-> \/ (phase = STATE_CAT /\ metrics.spine_curvature < -MAX_SPINE_FLEX)
                       \/ (phase = STATE_COW /\ metrics.spine_curvature > MAX_SPINE_EXT)
                       \/ metrics.shoulder_alignment > 15
                       \/ metrics.hip_alignment > 15
                       \/ metrics.symmetry_diff > 15,
              soft |-> \/ metrics.head_alignment > 20
                       \/ out.self.tempo_violations > self.tempo_violations]
        ELSE [op |-> "validate_form",
              hard |-> \/ metrics.arm_symmetry_diff > 20
                       \/ metrics.left_elbow_forward > 15
                       \/ metrics.right_elbow_forward > 15,
              soft |-> metrics.torso_angle > 15]

ValidateCriteria ==
    /\ exercise.cls \in {"scoliosis_cat_cow", "wall_angels"}
    /\ last_frame < MaxFrameCriteria
    /\ \E metrics \in CriteriaMetrics(exercise) :
        LET out == validate_form(exercise, metrics, last_frame + 1)
        IN  /\ exercise' = out.self
            /\ result' = out.result
            /\ monitor' = ObserveCriteria(exercise, metrics, out)
    /\ prev_frame' = last_frame
    /\ last_frame' = last_frame + 1
    /\ UNCHANGED <<twin, twin_result, app_vars, factory_vars>>

InitCriteria == Init /\ exercise.cls \in {"scoliosis_cat_cow", "wall_angels"}

SpecCriteria == InitCriteria /\ [][ValidateCriteria \/ Reset]_vars

\* ------------------------------------------------------------------------
\* The factory's registry under registrations, lookups, listings and resets
\* ------------------------------------------------------------------------

RegisterIds == {"wall_angels", "shoulder_rotation", "basic_stretch"}

RegisterClasses == {WallAngels, CatCowPose, ShoulderRotation, BasicStretch}

CreateIds == ExerciseIds \cup {"shoulder_rotation", "unknown_exercise"}

\* @ExerciseFactory.register(exercise_id) applied to a class
Register ==
    /\ \E exercise_id \in RegisterIds, exercise_class \in RegisterClasses :
        LET out == ExerciseFactory_register(_exercises, exercise_id, exercise_class)
        IN  /\ _exercises' = out.exercises
            /\ factory_out' = [op |-> "register", exercise_id |-> exercise_id,
                               exercise_class |-> exercise_class,
                               printed |-> out.printed, raised |-> out.raised]
            /\ registrations' = (exercise_id :> exercise_class) @@ registrations
    /\ UNCHANGED <<_initialized, validator_vars, app_vars>>

\* ExerciseFactory.create(exercise_id)
CreateExercise ==
    /\ \E exercise_id \in CreateIds :
        LET out == ExerciseFactory_create_in(_exercises, _initialized, exercise_id)
        IN  /\ _exercises' = out.exercises
            /\ _initialized' = out.initialized
            /\ factory_out' = [op |-> "create", exercise_id |-> exercise_id,
                               raised |-> out.raised, message |-> out.message,
                               instance |-> out.instance]
    /\ UNCHANGED <<registrations, validator_vars, app_vars>>

\* ExerciseFactory.get_exercises_by_category()
GetExercisesByCategory ==
    /\ LET out == ExerciseFactory_get_exercises_by_category(_exercises, _initialized)
       IN  /\ _exercises' = out.exercises
           /\ _initialized' = out.initialized
           /\ factory_out' = [op |-> "get_exercises_by_category",
                              raised |-> out.raised, categories |-> out.categories]
    /\ UNCHANGED <<registrations, validator_vars, app_vars>>

\* ExerciseFactory.reset()
FactoryReset ==
    /\ _exercises' = ExerciseFactory_reset.exercises
    /\ _initialized' = ExerciseFactory_reset.initialized
    /\ factory_out' = [op |-> "reset"]
    /\ registrations' = [exercise_id \in {} |-> WallAngels]
    /\ UNCHANGED <<validator_vars, app_vars>>

NextFactory ==
    \/ Register
    \/ CreateExercise
    \/ GetExercisesByCategory
    \/ FactoryReset

SpecFactory == Init /\ [][NextFactory]_vars

\* ------------------------------------------------------------------------
\* Chest Opener filmed long enough for a second rep, so that the cooldown
\* is measured from a rep already counted
\* ------------------------------------------------------------------------

MaxFrameReps == 125

\* Elbows above the shoulders, below them within the tolerance, well below,
\* the left one below and the right one above, or the left one out of the
\* picture
RepsLandmarks ==
    {lm \in ChestLandmarks :
        \/ "LEFT_ELBOW" \notin DOMAIN lm /\ "RIGHT_ELBOW" \in DOMAIN lm
        \/ /\ {"LEFT_ELBOW", "RIGHT_ELBOW"} \subseteq DOMAIN lm
           /\ \/ /\ Y(lm.LEFT_ELBOW) = Y(lm.RIGHT_ELBOW)
                 /\ Y(lm.LEFT_ELBOW) \in {40, 55, 70}
              \/ /\ Y(lm.LEFT_ELBOW) = 70
                 /\ Y(lm.RIGHT_ELBOW) = 40}

\* The left elbow is out of the picture only on the early frames and on
\* those that follow the earliest end of a hold
RepsMetrics(f) ==
    {ChestOpener_calculate_metrics(lm) :
        lm \in {l \in RepsLandmarks :
                  \/ f <= MaxHiddenFrame
                  \/ HOLD_FRAMES < f /\ f <= HOLD_FRAMES + MaxHiddenFrame
                  \/ "LEFT_ELBOW" \in DOMAIN l}}

ValidateChestOpenerReps ==
    /\ exercise.cls = "chest_opener_retraction"
    /\ last_frame < MaxFrameReps
    /\ \E metrics \in RepsMetrics(last_frame + 1) : Call(metrics, last_frame + 1)
    /\ UNCHANGED app_vars

SpecChestOpenerReps ==
    InitFor("chest_opener_retraction") /\ [][ValidateChestOpenerReps]_vars

\* ------------------------------------------------------------------------
\* Neck Side-to-Side and Chest Opener with frames on which a required point
\* is not visible, early in the session and after a completed hold
\* ------------------------------------------------------------------------

MaxFrameGate == 3

HiddenAllowed(f) ==
    \/ f <= MaxHiddenFrame
    \/ HOLD_FRAMES < f /\ f <= HOLD_FRAMES + MaxHiddenFrame

\* calculate_metrics' dicts, and dicts that say the right elbow is not
\* visible and carry the position keys all the same
GateChestMetrics(f) ==
    RepsMetrics(f)
    \cup (IF HiddenAllowed(f)
          THEN {[m EXCEPT !.right_elbow_visible = FALSE] :
                   m \in {x \in RepsMetrics(f) : x.left_elbow_visible}}
          ELSE {})

\* calculate_metrics' dicts with the left wrist missing, with the right
\* elbow and wrist missing, and dicts that say not all points are visible
\* and carry the crossing keys all the same
GateNeckMetrics ==
    NeckSideToSideMetrics
    \cup {NeckSideToSide_calculate_metrics(
              flag_visibility(lm, FALSE, <<"RIGHT_ELBOW", "RIGHT_WRIST">>)) :
             lm \in {l \in NeckPoses : \A p \in NeckPoints : X(l[p]) = 60}}
    \cup {[all_visible |-> FALSE, missing_points |-> <<"LEFT_WRIST">>] @@ m :
             m \in {x \in NeckSideToSideMetrics :
                       x.all_visible /\ ~x.all_crossed_right /\ ~x.all_crossed_left}}

\* Whether the call was gated and the names its feedback has to give
ObserveGate(self, metrics) ==
    IF self.cls = "chest_opener_retraction"
    THEN LET left == Get(metrics, "left_elbow_visible", TRUE)
             right == Get(metrics, "right_elbow_visible", TRUE)
         IN  [op |-> "validate_form",
              visible |-> left /\ right,
              missing |-> IF ~left /\ ~right THEN "LEFT elbow, RIGHT elbow"
                          ELSE IF ~left THEN "LEFT elbow"
                          ELSE IF ~right THEN "RIGHT elbow"
                          ELSE ""]
    ELSE LET missing_points == Get(metrics, "missing_points", <<>>)
         IN  [op |-> "validate_form",
              visible |-> Get(metrics, "all_visible", TRUE),
              missing |-> IF missing_points = <<"LEFT_WRIST">> THEN "Left wrist"
                          ELSE IF missing_points = <<"RIGHT_ELBOW", "RIGHT_WRIST">>
                          THEN "Right elbow, Right wrist"
                          ELSE ""]

GateCall(metrics, frame_count_arg) ==
    LET out == validate_form(exercise, metrics, frame_count_arg)
    IN  /\ exercise' = out.self
        /\ result' = out.result
        /\ prev_frame' = last_frame
        /\ last_frame' = frame_count_arg
        /\ monitor' = ObserveGate(exercise, metrics)
        /\ UNCHANGED <<twin, twin_result, app_vars, factory_vars>>

ValidateGateChest ==
    /\ exercise.cls = "chest_opener_retraction"
    /\ last_frame < MaxFrameReps
    /\ \E metrics \in GateChestMetrics(last_frame + 1) :
        GateCall(metrics, last_frame + 1)

ValidateGateNeck ==
    /\ exercise.cls = "neck_side_to_side"
    /\ last_frame < MaxFrameGate
    /\ \E metrics \in GateNeckMetrics : GateCall(metrics, last_frame + 1)

InitGate == Init /\ exercise.cls \in {"chest_opener_retraction", "neck_side_to_side"}

SpecGate == InitGate /\ [][ValidateGateChest \/ ValidateGateNeck]_vars

\* ------------------------------------------------------------------------
\* Cat-Cow on frames whose distances fall on both sides of, and exactly on,
\* the ends of the tempo window
\* ------------------------------------------------------------------------

\* Distances of 1, 59, 60, 149, 150 and 151 frames, among others
TempoFrames == {0, 1, 60, 61, 210, 211, 212}

\* A rounded, a flat and an arched spine, the head in line or off it
TempoMetrics ==
    {[spine_curvature |-> s, shoulder_alignment |-> 10, hip_alignment |-> 10,
      symmetry_diff |-> 10, head_alignment |-> head] :
        s \in CycleSpineValues, head \in {10, 30}}

\* The phases reported, the frame of the last change among them, and for a
\* direct CAT<->COW change the frames elapsed since the change before
ObserveTempo(mon, metrics, out, frame_count_arg) ==
    LET phase == out.result.details.state
        changed_at == Get(mon, "changed_at", 0)
    IN  [op |-> "validate_form",
         phase |-> phase,
         changed_at |-> IF phase # mon.phase THEN frame_count_arg ELSE changed_at,
         direct |-> \/ (mon.phase = STATE_CAT /\ phase = STATE_COW)
                    \/ (mon.phase = STATE_COW /\ phase = STATE_CAT),
         elapsed |-> frame_count_arg - changed_at,
         head_off |-> metrics.head_alignment > 20]

ValidateTempo ==
    /\ exercise.cls = "scoliosis_cat_cow"
    /\ \E metrics \in TempoMetrics, f \in {x \in TempoFrames : x > last_frame} :
        LET out == validate_form(exercise, metrics, f)
        IN  /\ exercise' = out.self
            /\ result' = out.result
            /\ monitor' = ObserveTempo(monitor, metrics, out, f)
            /\ prev_frame' = last_frame
            /\ last_frame' = f
    /\ UNCHANGED <<twin, twin_result, app_vars, factory_vars>>

ResetTempo ==
    /\ exercise.cls = "scoliosis_cat_cow"
    /\ exercise' = reset(exercise)
    /\ result' = NoResult
    /\ monitor' = [op |-> "reset", phase |-> STATE_NEUTRAL, changed_at |-> 0]
    /\ prev_frame' = NoFrame
    /\ last_frame' = NoFrame
    /\ UNCHANGED <<twin, twin_result, app_vars, factory_vars>>

SpecTempo == InitFor("scoliosis_cat_cow") /\ [][ValidateTempo \/ ResetTempo]_vars

\* ------------------------------------------------------------------------
\* Cat-Cow on the same frames, the direct changes counted by the observer
\* ------------------------------------------------------------------------

\* ObserveTempo with q, the direct CAT<->COW changes among the phases
\* reported since construction or the last reset()
ObserveTransitions(mon, metrics, out, frame_count_arg) ==
    LET seen == ObserveTempo(mon, metrics, out, frame_count_arg)
    IN  ("q" :> (mon.q + (IF seen.direct THEN 1 ELSE 0))) @@ seen

ValidateTransitions ==
    /\ exercise.cls = "scoliosis_cat_cow"
    /\ \E metrics \in TempoMetrics, f \in {x \in TempoFrames : x > last_frame} :
        LET out == validate_form(exercise, metrics, f)
        IN  /\ exercise' = out.self
            /\ result' = out.result
            /\ monitor' = ObserveTransitions(monitor, metrics, out, f)
            /\ prev_frame' = last_frame
            /\ last_frame' = f
    /\ UNCHANGED <<twin, twin_result, app_vars, factory_vars>>

ResetTransitions ==
    /\ exercise.cls = "scoliosis_cat_cow"
    /\ exercise' = reset(exercise)
    /\ result' = NoResult
    /\ monitor' = [op |-> "reset", phase |-> STATE_NEUTRAL, changed_at |-> 0,
                   q |-> 0]
    /\ prev_frame' = NoFrame
    /\ last_frame' = NoFrame
    /\ UNCHANGED <<twin, twin_result, app_vars, factory_vars>>

SpecTransitions ==
    InitFor("scoliosis_cat_cow") /\ [][ValidateTransitions \/ ResetTransitions]_vars

\* ------------------------------------------------------------------------
\* Cat-Cow and Wall Angels on the ends of the phase bands and next to them
\* ------------------------------------------------------------------------

MaxFramePhase == 2

PhaseSpineValues ==
    {-(MIN_SPINE_FLEX + 1), -MIN_SPINE_FLEX, 0, MIN_SPINE_EXT, MIN_SPINE_EXT + 1}

\* Both arms at the same angle, which is then their average
PhaseArmAngles ==
    {MIN_ARM_ANGLE_DOWN - 1, MIN_ARM_ANGLE_DOWN, MAX_ARM_ANGLE_DOWN,
     MAX_ARM_ANGLE_DOWN + 1, MIN_ARM_ANGLE_UP - 1, MIN_ARM_ANGLE_UP,
     MAX_ARM_ANGLE_UP, MAX_ARM_ANGLE_UP + 1}

PhaseMetrics(self) ==
    IF self.cls = "scoliosis_cat_cow"
    THEN {[spine_curvature |-> s, shoulder_alignment |-> 10, hip_alignment |-> 10,
           symmetry_diff |-> 10, head_alignment |-> 10] : s \in PhaseSpineValues}
    ELSE {[left_arm_angle |-> a, right_arm_angle |-> a, arm_symmetry_diff |-> 0,
           avg_arm_angle |-> a, left_elbow_forward |-> 10,
           right_elbow_forward |-> 10, torso_angle |-> 10] : a \in PhaseArmAngles}

\* The phase the bands give the frame's primary metric
ObservePhase(self, metrics) ==
    [op |-> "validate_form",
     band |-> IF self.cls = "scoliosis_cat_cow"
              THEN IF metrics.spine_curvature < -10 THEN "cat"
                   ELSE IF metrics.spine_curvature > 10 THEN "cow"
                   ELSE "neutral"
              ELSE IF 70 <= metrics.avg_arm_angle /\ metrics.avg_arm_angle <= 110
                   THEN "arms_down"
                   ELSE IF 160 <= metrics.avg_arm_angle /\ metrics.avg_arm_angle <= 190
                   THEN "arms_up"
                   ELSE "transition",
     metric |-> IF self.cls = "scoliosis_cat_cow" THEN metrics.spine_curvature
                ELSE metrics.avg_arm_angle,
     previous |-> self.current_state]

ValidatePhase ==
    /\ exercise.cls \in {"scoliosis_cat_cow", "wall_angels"}
    /\ last_frame < MaxFramePhase
    /\ \E metrics \in PhaseMetrics(exercise) :
        LET out == validate_form(exercise, metrics, last_frame + 1)
        IN  /\ exercise' = out.self
            /\ result' = out.result
            /\ monitor' = ObservePhase(exercise, metrics)
    /\ prev_frame' = last_frame
    /\ last_frame' = last_frame + 1
    /\ UNCHANGED <<twin, twin_result, app_vars, factory_vars>>

SpecPhase == InitCriteria /\ [][ValidatePhase \/ Reset]_vars

\* ------------------------------------------------------------------------
\* Cat-Cow and Wall Angels on and just beyond the symmetry and elbow limits
\* ------------------------------------------------------------------------

MaxFrameViolations == 2

\* A rounded and an arched spine, the sides 15 or 16 degrees apart
ViolationsCatCowMetrics ==
    {[spine_curvature |-> s, shoulder_alignment |-> 10, hip_alignment |-> 10,
      symmetry_diff |-> d, head_alignment |-> 10] :
        s \in {-20, 20}, d \in {15, 16}}

\* Arms at shoulder level 0, MAX_ARM_ANGLE_DIFF and MAX_ARM_ANGLE_DIFF + 1
\* degrees apart, each elbow MAX_ELBOW_FORWARD or one more forward
ViolationsWallAngelsMetrics ==
    {[left_arm_angle |-> 80 + d, right_arm_angle |-> 80,
      arm_symmetry_diff |-> Abs(d),
      avg_arm_angle |-> (80 + d + 80) \div 2,
      left_elbow_forward |-> l, right_elbow_forward |-> r,
      torso_angle |-> 10] :
        d \in {0, MAX_ARM_ANGLE_DIFF, MAX_ARM_ANGLE_DIFF + 1},
        l \in {MAX_ELBOW_FORWARD, MAX_ELBOW_FORWARD + 1},
        r \in {MAX_ELBOW_FORWARD, MAX_ELBOW_FORWARD + 1}}

ViolationsMetrics(self) ==
    IF self.cls = "scoliosis_cat_cow" THEN ViolationsCatCowMetrics
    ELSE ViolationsWallAngelsMetrics

\* What the frame shows: whether the symmetry difference is beyond its
\* tolerance and how many elbows are beyond MAX_ELBOW_FORWARD
ObserveViolations(self, metrics) ==
    IF self.cls = "scoliosis_cat_cow"
    THEN [op |-> "validate_form",
          uneven |-> IF metrics.symmetry_diff > 15 THEN 1 ELSE 0,
          elbows |-> 0]
    ELSE [op |-> "validate_form",
          uneven |-> IF metrics.arm_symmetry_diff > 20 THEN 1 ELSE 0,
          elbows |-> Cardinality({side \in {"left", "right"} :
                        (IF side = "left" THEN metrics.left_elbow_forward
                         ELSE metrics.right_elbow_forward) > 15})]

ValidateViolations ==
    /\ exercise.cls \in {"scoliosis_cat_cow", "wall_angels"}
    /\ last_frame < MaxFrameViolations
    /\ \E metrics \in ViolationsMetrics(exercise) :
        LET out == validate_form(exercise, metrics, last_frame + 1)
        IN  /\ exercise' = out.self
            /\ result' = out.result
            /\ monitor' = ObserveViolations(exercise, metrics)
    /\ prev_frame' = last_frame
    /\ last_frame' = last_frame + 1
    /\ UNCHANGED <<twin, twin_result, app_vars, factory_vars>>

SpecViolations == InitCriteria /\ [][ValidateViolations \/ Reset]_vars

\* ------------------------------------------------------------------------
\* Neck Side-to-Side on visible frames, the points counted on the landmarks
\* ------------------------------------------------------------------------

MaxFrameScore == 2

\* How many of the six points lie right of and left of the midline
ObserveScore(landmarks) ==
    [op |-> "validate_form",
     n_right |-> Cardinality({p \in NeckPoints : X(landmarks[p]) > 50}),
     n_left |-> Cardinality({p \in NeckPoints : X(landmarks[p]) < 50})]

ValidateNeckScore ==
    /\ exercise.cls = "neck_side_to_side"
    /\ last_frame < MaxFrameScore
    /\ \E landmarks \in NeckVisibleLandmarks :
        LET metrics == calculate_metrics(exercise, landmarks)
            out == validate_form(exercise, metrics, last_frame + 1)
        IN  /\ exercise' = out.self
            /\ result' = out.result
            /\ monitor' = ObserveScore(landmarks)
    /\ prev_frame' = last_frame
    /\ last_frame' = last_frame + 1
    /\ UNCHANGED <<twin, twin_result, app_vars, factory_vars>>

SpecNeckScore == InitFor("neck_side_to_side") /\ [][ValidateNeckScore \/ Reset]_vars

\* ------------------------------------------------------------------------
\* Cat-Cow and Wall Angels on the ends of the bands, in good and in bad form
\* ------------------------------------------------------------------------

MaxFramePenalties == 2

\* The ends of the phase bands and of the safe range, and the values next
\* to them
PenaltiesSpineValues ==
    {-(MAX_SPINE_FLEX + 1), -MAX_SPINE_FLEX, -(MIN_SPINE_FLEX + 1), -MIN_SPINE_FLEX,
     0, MIN_SPINE_EXT, MIN_SPINE_EXT + 1, MAX_SPINE_EXT, MAX_SPINE_EXT + 1}

\* Every secondary criterion within its tolerance, or every one beyond it
PenaltiesCatCowMetrics ==
    {[spine_curvature |-> s, shoulder_alignment |-> a, hip_alignment |-> a,
      symmetry_diff |-> a, head_alignment |-> a + 10] :
        s \in PenaltiesSpineValues, a \in {10, 20}}

\* The arms d degrees either side of their average, the elbows and the torso
\* within their tolerances or beyond them
PenaltiesWallAngelsMetrics ==
    {[left_arm_angle |-> avg + d, right_arm_angle |-> avg - d,
      arm_symmetry_diff |-> 2 * d, avg_arm_angle |-> avg,
      left_elbow_forward |-> a, right_elbow_forward |-> a, torso_angle |-> a] :
        avg \in PhaseArmAngles, d \in {0, 11}, a \in {10, 20}}

PenaltiesMetrics(self) ==
    IF self.cls = "scoliosis_cat_cow" THEN PenaltiesCatCowMetrics
    ELSE PenaltiesWallAngelsMetrics

\* The frame's primary metric
ObservePenalties(self, metrics) ==
    [op |-> "validate_form",
     primary |-> IF self.cls = "scoliosis_cat_cow" THEN metrics.spine_curvature
                 ELSE metrics.avg_arm_angle]

ValidatePenalties ==
    /\ exercise.cls \in {"scoliosis_cat_cow", "wall_angels"}
    /\ last_frame < MaxFramePenalties
    /\ \E metrics \in PenaltiesMetrics(exercise) :
        LET out == validate_form(exercise, metrics, last_frame + 1)
        IN  /\ exercise' = out.self
            /\ result' = out.result
            /\ monitor' = ObservePenalties(exercise, metrics)
    /\ prev_frame' = last_frame
    /\ last_frame' = last_frame + 1
    /\ UNCHANGED <<twin, twin_result, app_vars, factory_vars>>

SpecPenalties == InitCriteria /\ [][ValidatePenalties \/ Reset]_vars

\* ------------------------------------------------------------------------
\* Auto-discovery with exercise modules whose import raises, from the moment
\* exercise_factory's class body has run and its last line has not
\* ------------------------------------------------------------------------

ModuleNames ==
    {DiscoveredModules[i].exercise_class.module : i \in DOMAIN DiscoveredModules}

\* What importing a module does: run to its end, raise ImportError or another
\* Exception before its class statement, or raise after it, the decorator
\* having run
ImportOutcomes == {"ok", "ImportError", "Exception", "LateException"}

\* The registry once the module's import has come to its end or to its raise
after_import(exercises, found, outcome) ==
    IF outcome[found.exercise_class.module] \in {"ok", "LateException"}
    THEN ExerciseFactory_register(exercises, found.exercise_id,
                                  found.exercise_class).exercises
    ELSE exercises

\* An import loop that gives up at the first module that raises
RECURSIVE import_modules_from_abort(_, _, _, _)
import_modules_from_abort(exercises, modules, sys_modules, outcome) ==
    IF modules = <<>>
    THEN [exercises |-> exercises, sys_modules |-> sys_modules, printed |-> <<>>]
    ELSE LET modname == Head(modules).exercise_class.module
         IN  IF modname \in sys_modules
             THEN import_modules_from_abort(exercises, Tail(modules), sys_modules,
                                            outcome)
             ELSE IF outcome[modname] # "ok"
             THEN [exercises |-> after_import(exercises, Head(modules), outcome),
                   sys_modules |-> sys_modules,
                   printed |-> <<[warning |-> outcome[modname], modname |-> modname]>>]
             ELSE import_modules_from_abort(
                      after_import(exercises, Head(modules), outcome),
                      Tail(modules), sys_modules \cup {modname}, outcome)

\* The loop of auto_discover over the modules found: a module in sys.modules
\* is not executed again; one whose import raises is reported ("Could not
\* import" for ImportError, "Error loading" otherwise) and stays out of
\* sys.modules; any other runs its decorator and enters sys.modules
RECURSIVE import_modules_from(_, _, _, _)
import_modules_from(exercises, modules, sys_modules, outcome) ==
    IF modules = <<>>
    THEN [exercises |-> exercises, sys_modules |-> sys_modules, printed |-> <<>>]
    ELSE LET modname == Head(modules).exercise_class.module
         IN  IF modname \in sys_modules
             THEN import_modules_from(exercises, Tail(modules), sys_modules, outcome)
             ELSE IF outcome[modname] # "ok"
             THEN LET rest == import_modules_from(
                                  after_import(exercises, Head(modules), outcome),
                                  Tail(modules), sys_modules, outcome)
                  IN  [rest EXCEPT !.printed =
                          <<[warning |-> outcome[modname], modname |-> modname]>> \o @]
             ELSE import_modules_from(
                      after_import(exercises, Head(modules), outcome),
                      Tail(modules), sys_modules \cup {modname}, outcome)

\* A discovery that ends at the first module whose import raises
ExerciseFactory_auto_discover_from_abort(exercises, initialized, sys_modules, outcome, walk_raises) ==
    IF initialized
    THEN [exercises |-> exercises, initialized |-> TRUE, sys_modules |-> sys_modules,
          printed |-> <<>>, ran |-> FALSE]
    ELSE IF walk_raises
    THEN [exercises |-> exercises, initialized |-> TRUE, sys_modules |-> sys_modules,
          printed |-> <<[warning |-> "Error during auto-discovery", modname |-> <<>>]>>,
          ran |-> TRUE]
    ELSE LET imported == import_modules_from_abort(exercises, DiscoveredModules,
                                                   sys_modules, outcome)
         IN  [exercises |-> imported.exercises, initialized |-> TRUE,
              sys_modules |-> imported.sys_modules, printed |-> imported.printed,
              ran |-> TRUE]

\* ExerciseFactory.auto_discover() in an interpreter with sys_modules
\* imported; walk_raises: the walk itself raises before the first module
ExerciseFactory_auto_discover_from(exercises, initialized, sys_modules, outcome, walk_raises) ==
    IF initialized
    THEN [exercises |-> exercises, initialized |-> TRUE, sys_modules |-> sys_modules,
          printed |-> <<>>, ran |-> FALSE]
    ELSE IF walk_raises
    THEN [exercises |-> exercises, initialized |-> TRUE, sys_modules |-> sys_modules,
          printed |-> <<[warning |-> "Error during auto-discovery", modname |-> <<>>]>>,
          ran |-> TRUE]
    ELSE LET imported == import_modules_from(exercises, DiscoveredModules,
                                             sys_modules, outcome)
         IN  [exercises |-> imported.exercises, initialized |-> TRUE,
              sys_modules |-> imported.sys_modules, printed |-> imported.printed,
              ran |-> TRUE]

\* sys_modules: the exercise modules in sys.modules; outcome: what importing
\* each module does; before: the ids registered when reset() was last called
InitDiscovery ==
    /\ exercise = WallAngels_init
    /\ result = NoResult
    /\ last_frame = NoFrame
    /\ prev_frame = NoFrame
    /\ twin = NoTwin
    /\ twin_result = NoResult
    /\ monitor \in {[op |-> "init", sys_modules |-> {}, outcome |-> o, before |-> {}] :
                       o \in [ModuleNames -> ImportOutcomes]}
    /\ running = FALSE
    /\ frame_count = 0
    /\ in_session = FALSE
    /\ entries = 0
    /\ pose_detected = FALSE
    /\ all_visible = FALSE
    /\ _exercises = <<>>
    /\ _initialized = FALSE
    /\ factory_out = [op |-> "class"]
    /\ registrations = [id \in {} |-> WallAngels]

\* ExerciseFactory.auto_discover(): the module's last line, or any caller
AutoDiscover ==
    /\ \E walk_raises \in BOOLEAN :
        LET out == ExerciseFactory_auto_discover_from(
                       _exercises, _initialized, monitor.sys_modules,
                       monitor.outcome, walk_raises)
        IN  /\ _exercises' = out.exercises
            /\ _initialized' = out.initialized
            /\ factory_out' = [op |-> "auto_discover", printed |-> out.printed,
                               walk_raised |-> walk_raises /\ out.ran]
            /\ monitor' = [monitor EXCEPT !.op = "auto_discover",
                                          !.sys_modules = out.sys_modules]
    /\ UNCHANGED <<exercise, result, last_frame, prev_frame, twin, twin_result,
                   registrations, app_vars>>

\* ExerciseFactory.create(exercise_id): auto_discover if not initialized,
\* then the lookup
DiscoveryCreate ==
    /\ factory_out.op # "class"
    /\ \E exercise_id \in ExerciseIds \cup {"unknown_exercise"} :
        LET out == ExerciseFactory_auto_discover_from(
                       _exercises, _initialized, monitor.sys_modules,
                       monitor.outcome, FALSE)
            found == dict_has(out.exercises, exercise_id)
        IN  /\ _exercises' = out.exercises
            /\ _initialized' = out.initialized
            /\ factory_out' = [op |-> "create", exercise_id |-> exercise_id,
                               raised |-> IF found THEN "none" ELSE "ValueError",
                               after_reset |-> factory_out.op = "reset"]
            /\ monitor' = [monitor EXCEPT !.op = "create",
                                          !.sys_modules = out.sys_modules]
    /\ UNCHANGED <<exercise, result, last_frame, prev_frame, twin, twin_result,
                   registrations, app_vars>>

\* ExerciseFactory.reset()
DiscoveryReset ==
    /\ factory_out.op # "class"
    /\ _exercises' = ExerciseFactory_reset.exercises
    /\ _initialized' = ExerciseFactory_reset.initialized
    /\ factory_out' = [op |-> "reset"]
    /\ monitor' = [monitor EXCEPT
                     !.op = "reset",
                     !.before = {_exercises[i].key : i \in DOMAIN _exercises}]
    /\ UNCHANGED <<exercise, result, last_frame, prev_frame, twin, twin_result,
                   registrations, app_vars>>

SpecDiscovery ==
    InitDiscovery /\ [][AutoDiscover \/ DiscoveryCreate \/ DiscoveryReset]_vars

\* ------------------------------------------------------------------------
\* Properties
\* ------------------------------------------------------------------------

\* C1: whatever the validator and whatever calls were made, the score of the
\* ValidationResult returned last lies in [0, 100]
ScoreInRange ==
    HasResult => 0 <= result.score /\ result.score <= Points(100)

\* A Cat-Cow frame on which every penalty applies: too fast a transition
\* into an over-extended Cow with hands, knees, symmetry and head all off
ScoreInRange_witness ==
    /\ HasResult
    /\ exercise.cls = "scoliosis_cat_cow"
    /\ result.score = Points(35)

RepCounters(self) ==
    IF self.cls = "neck_side_to_side"
    THEN <<self.rep_count, self.left_reps, self.right_reps>>
    ELSE <<self.rep_count>>

\* C2: on every validate_form call (frame indices increasing, no reset()
\* in between) each rep counter of the validator stays non-negative and does
\* not decrease
RepCountersMonotonic ==
    [][monitor'.op = "validate_form" =>
         \A i \in DOMAIN RepCounters(exercise) :
             /\ RepCounters(exercise)[i] >= 0
             /\ RepCounters(exercise')[i] >= RepCounters(exercise)[i]]_vars

\* A Chest Opener rep has been counted
RepCountersMonotonic_witness ==
    /\ exercise.cls = "chest_opener_retraction"
    /\ monitor.op = "validate_form"
    /\ exercise.rep_count = 1

\* C4: right after reset() the instance is in its constructor state, and
\* from then on it and a newly constructed instance fed the same
\* (metrics, frame index) calls hold the same state and return the same results
ResetLikeFresh ==
    /\ monitor.op = "reset" => exercise = ExerciseFactory_create(exercise.cls)
    /\ twin # NoTwin => exercise = twin /\ result = twin_result

\* After a reset(), calls have been made and a rep has been counted again
ResetLikeFresh_witness ==
    /\ twin # NoTwin
    /\ monitor.op = "validate_form"
    /\ exercise.rep_count > 0

\* C5: Cat-Cow rep_count (counted here in half reps) goes up by one half on
\* a call exactly when the phase reported by the previous call was CAT and
\* this one's is COW, or the reverse, so it always equals the number of such
\* direct changes; after the spine curvatures -20, -20, -20, 20, 20, 20, -20,
\* -20 fed to a new (or reset) instance it is two halves, 1.0
CatCowHalfReps ==
    /\ exercise.rep_count = monitor.q
    /\ monitor.example = Len(ExampleSpine) => exercise.rep_count = 2

\* The eight frames of the example have been fed
CatCowHalfReps_witness ==
    /\ monitor.example = Len(ExampleSpine)
    /\ result.details.reps = 1

\* C6: Wall Angels rep_count goes up by exactly 1 on a call that reports
\* ARMS_DOWN when the last phase reported other than TRANSITION was ARMS_UP
\* and ARMS_DOWN had been reported before; on every other call it stays
WallAngelsRepOnReturn ==
    [][monitor'.op = "validate_form" =>
         exercise'.rep_count = exercise.rep_count + (IF monitor'.due THEN 1 ELSE 0)]_vars

\* The second rep has just been counted
WallAngelsRepOnReturn_witness ==
    /\ monitor.due
    /\ exercise.rep_count = 2

\* C7 as stated: once a run of fewer than HOLD_FRAMES both-below frames has
\* been ended by a frame on which the elbows are not both below,
\* hold_counter is 0 and rep_count is what it was when the run began, until
\* the next run begins
ShortHoldResets_original ==
    (monitor.op = "validate_form" /\ monitor.ended = "short") =>
        /\ exercise.hold_counter = 0
        /\ exercise.rep_count = monitor.rep_at_run_start

\* C7 (amended): the same, provided the run began with hold_counter 0 and no
\* completed hold waiting, and the frame that ended it had both elbows visible
ShortHoldResets ==
    (/\ monitor.op = "validate_form"
     /\ monitor.ended = "short"
     /\ monitor.clean
     /\ monitor.break_visible) =>
        /\ exercise.hold_counter = 0
        /\ exercise.rep_count = monitor.rep_at_run_start

\* A run of HOLD_FRAMES - 1 frames was broken and the elbows are back in the
\* start position
ShortHoldResets_witness ==
    /\ monitor.op = "validate_form"
    /\ monitor.ended = "short"
    /\ monitor.clean
    /\ monitor.break_visible
    /\ monitor.visible /\ monitor.start_ok /\ ~monitor.both_below
    /\ last_frame >= HOLD_FRAMES

NeckRepOnFallingEdge ==
    [][monitor'.op = "validate_form" =>
         /\ exercise'.right_reps =
                exercise.right_reps + (IF monitor'.fell_right THEN 1 ELSE 0)
         /\ exercise'.left_reps =
                exercise.left_reps + (IF monitor'.fell_left THEN 1 ELSE 0)
         /\ ~(monitor'.fell_right /\ monitor'.fell_left)]_vars

\* A right-side rep counted after the points stayed right of the midline
\* for two frames, a frame without full visibility in between
NeckRepOnFallingEdge_witness ==
    /\ monitor.fell_right
    /\ exercise.right_reps = 1
    /\ exercise.left_reps = 0
    /\ last_frame >= 3

\* C3: a camera frame whose landmarks main.py flags as not all visible,
\* run through calculate_metrics and validate_form, yields score 0 and
\* is_correct false and leaves the validator's state as it was
HiddenFrameIsGated ==
    [][(/\ frame_count' = frame_count + 1
        /\ pose_detected'
        /\ ~all_visible') =>
           /\ result'.score = 0
           /\ ~result'.is_correct
           /\ exercise' = exercise]_vars

\* C10: between two reset() calls the frame_count values the application
\* passes to validate_form on one instance increase strictly, run_session
\* being entered again or not
FrameCountIncreases ==
    (prev_frame # NoFrame /\ last_frame # NoFrame) => prev_frame < last_frame

HardCriteriaDecide ==
    (monitor.op = "validate_form" /\ HasResult) =>
        (result.is_correct <=> ~monitor.hard)

\* A frame with a soft penalty only: scored below 100 and still correct
HardCriteriaDecide_witness ==
    /\ monitor.op = "validate_form"
    /\ HasResult
    /\ "soft" \in DOMAIN monitor
    /\ monitor.soft /\ ~monitor.hard
    /\ result.is_correct
    /\ result.score = Points(90)

\* The ids registered, in sorted order
RegisteredIdsSorted ==
    SelectSeq(StringOrder, LAMBDA exercise_id : exercise_id \in DOMAIN registrations)

RegistryIds(exercises) == {exercises[i].key : i \in DOMAIN exercises}

\* C13: registering under an id already registered does not raise: it prints
\* a warning and replaces the class, so that create(id) instantiates the
\* class registered last; the entries of the other ids are unchanged
DuplicateRegistrationReplaces ==
    [][/\ factory_out'.op = "register" =>
            LET exercise_id == factory_out'.exercise_id
            IN  /\ factory_out'.raised = "none"
                /\ dict_has(_exercises, exercise_id) =>
                       factory_out'.printed[1]
                           = "Warning: Exercise '" \o exercise_id
                             \o "' is already registered. Overwriting."
                /\ RegistryIds(_exercises') = RegistryIds(_exercises) \cup {exercise_id}
                /\ dict_get(_exercises', exercise_id) = factory_out'.exercise_class
                /\ \A other \in RegistryIds(_exercises) \ {exercise_id} :
                       dict_get(_exercises', other) = dict_get(_exercises, other)
       /\ (factory_out'.op = "create" /\ factory_out'.exercise_id \in DOMAIN registrations) =>
            /\ factory_out'.raised = "none"
            /\ factory_out'.instance
                   = Instantiate(registrations[factory_out'.exercise_id])]_vars

\* wall_angels registered again with the Cat-Cow class, then created
DuplicateRegistrationReplaces_witness ==
    /\ factory_out.op = "create"
    /\ factory_out.exercise_id = "wall_angels"
    /\ "wall_angels" \in DOMAIN registrations
    /\ registrations["wall_angels"] = CatCowPose
    /\ factory_out.instance = CatCowPose_init
    /\ dict_get(_exercises, "scoliosis_cat_cow") = CatCowPose
    /\ Len(_exercises) = 4

\* C14: create with an id that is not registered raises ValueError with a
\* message that lists every registered id, creates no instance and leaves
\* the registry as it was
UnknownIdRaises ==
    [][(factory_out'.op = "create" /\ factory_out'.exercise_id \notin DOMAIN registrations) =>
            /\ factory_out'.raised = "ValueError"
            /\ factory_out'.message
                   = "Exercise '" \o factory_out'.exercise_id \o "' not found.\n"
                     \o "Available exercises: " \o join(", ", RegisteredIdsSorted)
            /\ factory_out'.instance = NoInstance
            /\ _exercises' = _exercises]_vars

\* An unknown id looked up in a registry of five, one of them registered later
UnknownIdRaises_witness ==
    /\ factory_out.op = "create"
    /\ factory_out.exercise_id = "unknown_exercise"
    /\ factory_out.raised = "ValueError"
    /\ DOMAIN registrations = ExerciseIds \cup {"basic_stretch"}
    /\ factory_out.message
           = "Exercise 'unknown_exercise' not found.\nAvailable exercises: basic_stretch, chest_opener_retraction, neck_side_to_side, scoliosis_cat_cow, wall_angels"

\* The category the claim gives a class: the second component of its module
\* path when the path starts with exercises, general otherwise
ExpectedCategory(exercise_class) ==
    IF exercise_class.module[1] = "exercises" /\ Len(exercise_class.module) >= 3
    THEN exercise_class.module[3]
    ELSE "general"

\* C15: get_exercises_by_category puts every registered id in exactly one
\* list, that of the category of its class's module path; each list is
\* sorted and together the lists hold exactly the registered ids
CategoriesPartitionIds ==
    factory_out.op = "get_exercises_by_category" =>
        LET categories == factory_out.categories
        IN  /\ \A exercise_id \in DOMAIN registrations :
                \E category \in DOMAIN categories :
                    /\ category = ExpectedCategory(registrations[exercise_id])
                    /\ Cardinality({i \in DOMAIN categories[category] :
                                       categories[category][i] = exercise_id}) = 1
                    /\ \A other \in DOMAIN categories \ {category} :
                           \A i \in DOMAIN categories[other] :
                               categories[other][i] # exercise_id
            /\ \A category \in DOMAIN categories :
                \A i, j \in DOMAIN categories[category] :
                    i < j => str_lt(categories[category][i], categories[category][j])
            /\ UNION {{categories[category][i] : i \in DOMAIN categories[category]} :
                         category \in DOMAIN categories}
                   = DOMAIN registrations

\* Three categories, wall_angels moved to general by a later registration
CategoriesPartitionIds_witness ==
    /\ factory_out.op = "get_exercises_by_category"
    /\ DOMAIN factory_out.categories = {"scoliosis", "shoulder", "general"}
    /\ factory_out.categories["general"] = <<"basic_stretch", "wall_angels">>
    /\ factory_out.categories["shoulder"] = <<"shoulder_rotation">>
    /\ Len(factory_out.categories["scoliosis"]) = 3

\* C16: Chest Opener rep_count goes up only on a frame later than the one
\* on which the hold completed: the hold is already complete when the call
\* that counts the rep begins
RepAfterHoldCompleted ==
    [][(/\ exercise.cls = "chest_opener_retraction"
        /\ monitor'.op = "validate_form"
        /\ exercise'.rep_count > exercise.rep_count) =>
            exercise.hold_complete]_vars

\* C17: Chest Opener with increasing frame numbers: a call that begins with
\* the hold complete and shows both elbows, in the start position, raises
\* rep_count by exactly 1 and clears hold_complete and hold_counter; the
\* cooldown never delays or drops it
ReturnCountsAtOnce ==
    [][(/\ exercise.cls = "chest_opener_retraction"
        /\ monitor'.op = "validate_form"
        /\ exercise.hold_complete
        /\ monitor'.visible /\ monitor'.start_ok) =>
            /\ exercise'.rep_count = exercise.rep_count + 1
            /\ ~exercise'.hold_complete
            /\ exercise'.hold_counter = 0]_vars

\* The second rep, counted on the return from a hold held beyond its end
ReturnCountsAtOnce_witness ==
    /\ exercise.cls = "chest_opener_retraction"
    /\ monitor.op = "validate_form"
    /\ monitor.visible /\ monitor.start_ok /\ ~monitor.both_below
    /\ monitor.ended = "long"
    /\ exercise.rep_count = 2
    /\ exercise.last_rep_frame = last_frame
    /\ last_frame - HOLD_FRAMES < 3 * REP_COOLDOWN_FRAMES

\* C18 as stated: once the start position is validated and while the hold
\* is not complete, hold_counter is the number of immediately preceding
\* consecutive calls on which both elbows were below the shoulders, so 0
\* after any other call, one without a visible elbow included
HoldCounterIsRunLength_original ==
    (/\ exercise.cls = "chest_opener_retraction"
     /\ monitor.op = "validate_form"
     /\ exercise.start_position_validated
     /\ ~exercise.hold_complete) =>
        exercise.hold_counter = monitor.run

\* C18 (amended): once the start position is validated and while the hold
\* is not complete, a call that shows both elbows below the shoulders adds
\* 1 to hold_counter unless it counts a rep, a call that shows both elbows
\* otherwise or counts a rep leaves it at 0, and a call on which an elbow is
\* not visible leaves it as it was: hold_counter is the number of both-below
\* calls since the last call that showed the elbows elsewhere, validated
\* the start position or counted a rep, the calls without a visible elbow
\* not counting
HoldCounterIsRunLength ==
    [][(/\ exercise.cls = "chest_opener_retraction"
        /\ monitor'.op = "validate_form"
        /\ exercise'.start_position_validated
        /\ ~exercise'.hold_complete) =>
            exercise'.hold_counter =
                IF ~monitor'.visible THEN exercise.hold_counter
                ELSE IF monitor'.both_below /\ exercise'.rep_count = exercise.rep_count
                THEN exercise.hold_counter + 1
                ELSE 0]_vars

\* Two both-below calls with a call without the left elbow between them
HoldCounterIsRunLength_witness ==
    /\ exercise.cls = "chest_opener_retraction"
    /\ monitor.op = "validate_form"
    /\ monitor.visible /\ monitor.both_below
    /\ ~exercise.hold_complete
    /\ monitor.run = 1
    /\ exercise.hold_counter = 2

\* C19: Chest Opener: while hold_complete is true hold_counter is
\* HOLD_FRAMES, and a validate_form call that begins with hold_complete
\* true and counts no rep leaves both as they are, whatever its metrics
CompletedHoldPersists ==
    [][(/\ exercise.cls = "chest_opener_retraction"
        /\ exercise.hold_complete
        /\ monitor'.op = "validate_form"
        /\ exercise'.rep_count = exercise.rep_count) =>
            /\ exercise.hold_counter = HOLD_FRAMES
            /\ exercise'.hold_complete
            /\ exercise'.hold_counter = HOLD_FRAMES]_vars

\* A completed hold has outlasted a call without the left elbow
CompletedHoldPersists_witness ==
    /\ exercise.cls = "chest_opener_retraction"
    /\ monitor.op = "validate_form"
    /\ ~monitor.visible
    /\ exercise.hold_complete
    /\ exercise.hold_counter = HOLD_FRAMES
    /\ last_frame > HOLD_FRAMES

\* C20: a validate_form call gated on visibility (Neck: all_visible false;
\* Chest Opener: an elbow not visible) returns is_correct false and score 0
\* with feedback that names the missing points, and leaves the rep counters
\* and was-crossed flags (Neck) and rep_count, hold_counter, hold_complete,
\* start_position_validated, was_above_shoulders and last_rep_frame (Chest
\* Opener) as they were, whatever else the metrics say
GateLeavesStateAlone ==
    [][(monitor'.op = "validate_form" /\ ~monitor'.visible) =>
            /\ ~result'.is_correct
            /\ result'.score = 0
            /\ IF exercise.cls = "neck_side_to_side"
               THEN /\ result'.feedback_messages[2] = "   Missing: " \o monitor'.missing
                    /\ exercise'.rep_count = exercise.rep_count
                    /\ exercise'.left_reps = exercise.left_reps
                    /\ exercise'.right_reps = exercise.right_reps
                    /\ exercise'.left_was_crossed = exercise.left_was_crossed
                    /\ exercise'.right_was_crossed = exercise.right_was_crossed
               ELSE /\ result'.feedback_messages[1]
                           = "POSITION WRONG: Cannot see " \o monitor'.missing
                             \o " on camera"
                    /\ exercise'.rep_count = exercise.rep_count
                    /\ exercise'.hold_counter = exercise.hold_counter
                    /\ exercise'.hold_complete = exercise.hold_complete
                    /\ exercise'.start_position_validated
                           = exercise.start_position_validated
                    /\ exercise'.was_above_shoulders = exercise.was_above_shoulders
                    /\ exercise'.last_rep_frame = exercise.last_rep_frame]_vars

\* With a completed hold waiting, Chest Opener is told that the right elbow
\* is not visible
GateLeavesStateAlone_witness ==
    /\ exercise.cls = "chest_opener_retraction"
    /\ monitor.op = "validate_form"
    /\ "missing" \in DOMAIN monitor
    /\ ~monitor.visible
    /\ monitor.missing = "RIGHT elbow"
    /\ exercise.hold_complete
    /\ exercise.hold_counter = HOLD_FRAMES
    /\ exercise.start_position_validated
    /\ exercise.was_above_shoulders
    /\ ~result.is_correct
    /\ result.score = 0

\* C21: Chest Opener: until the start position is validated, a visible
\* frame that is not in the start position returns score 0 and is_correct
\* false and leaves rep_count and hold_counter at 0; the first visible frame
\* in the start position sets start_position_validated, which stays true on
\* every later validate_form call, and from then on a visible frame outside
\* the start position is no longer rejected
StartValidatedOnce ==
    [][(exercise.cls = "chest_opener_retraction" /\ monitor'.op = "validate_form") =>
            /\ (~exercise.start_position_validated /\ monitor'.visible
                    /\ ~monitor'.start_ok) =>
                   /\ result'.score = 0
                   /\ ~result'.is_correct
                   /\ exercise'.rep_count = 0
                   /\ exercise'.hold_counter = 0
                   /\ ~exercise'.start_position_validated
            /\ (~exercise.start_position_validated /\ monitor'.visible
                    /\ monitor'.start_ok) =>
                   exercise'.start_position_validated
            /\ exercise.start_position_validated =>
                   /\ exercise'.start_position_validated
                   /\ (monitor'.visible /\ ~monitor'.start_ok) => result'.is_correct]_vars

\* Elbows below the shoulders for several frames before any start position
StartValidatedOnce_witness ==
    /\ exercise.cls = "chest_opener_retraction"
    /\ monitor.op = "validate_form"
    /\ monitor.visible /\ ~monitor.start_ok /\ monitor.both_below
    /\ ~exercise.start_position_validated
    /\ exercise.hold_counter = 0
    /\ result.score = 0
    /\ last_frame >= 3

\* C22: Chest Opener with increasing frame numbers: last_rep_frame is the
\* frame of the latest rep_count increment, and an increment that follows
\* another comes at least rep_cooldown_frames (30) frames after it
RepsCooldownApart ==
    [][(exercise.cls = "chest_opener_retraction" /\ monitor'.op = "validate_form") =>
            IF exercise'.rep_count > exercise.rep_count
            THEN /\ exercise'.rep_count = exercise.rep_count + 1
                 /\ exercise'.last_rep_frame = last_frame'
                 /\ exercise.rep_count >= 1 =>
                        last_frame' - exercise.last_rep_frame >= 30
            ELSE /\ exercise'.rep_count = exercise.rep_count
                 /\ exercise'.last_rep_frame = exercise.last_rep_frame]_vars

\* The second rep has just been counted, the elbows staying just below the
\* shoulders all the time
RepsCooldownApart_witness ==
    /\ exercise.cls = "chest_opener_retraction"
    /\ monitor.op = "validate_form"
    /\ monitor.visible /\ monitor.start_ok /\ monitor.both_below
    /\ exercise.rep_count = 2
    /\ exercise.last_rep_frame = last_frame
    /\ last_frame < 2 * HOLD_FRAMES

\* update_dashboard: the rep count read from a result
total_reps(validation) == Get(validation.details, "reps", 0)

\* C23: the rep count the dashboard reads from the latest result (details
\* key 'reps', 0 when absent) does not decrease from one validated frame to
\* the next without a reset() between them
DashboardRepsNeverDecrease ==
    [][(monitor'.op = "validate_form" /\ HasResult) =>
            total_reps(result') >= total_reps(result)]_vars

TempoMessages == {"tempo_slow_down", "tempo_speed_up", "tempo_good"}

TempoMessagesIn(validation) ==
    {i \in DOMAIN validation.feedback_messages :
        validation.feedback_messages[i] \in TempoMessages}

\* C24: Cat-Cow: on a direct CAT<->COW change the time since the last change
\* of phase of any kind is classified: under 60 frames (2.0 s) adds 1 to
\* tempo_violations and takes 5 off the frame's score, over 150 frames
\* (5.0 s) adds 1 and takes 3 off, anything between changes neither; each
\* time exactly one tempo message is given and the time joins the
\* transition history.  Any other call gives no tempo message and leaves
\* both alone; every change of phase restarts the clock
TempoClassified ==
    [][monitor'.op = "validate_form" =>
            /\ exercise'.last_state_change = monitor'.changed_at
            /\ IF monitor'.direct
               THEN LET elapsed == monitor'.elapsed
                        message == IF elapsed < 60 THEN "tempo_slow_down"
                                   ELSE IF elapsed > 150 THEN "tempo_speed_up"
                                   ELSE "tempo_good"
                        worse == IF elapsed < 60 \/ elapsed > 150 THEN 1 ELSE 0
                        off == IF elapsed < 60 THEN 5 ELSE IF elapsed > 150 THEN 3 ELSE 0
                    IN  /\ exercise'.tempo_violations = exercise.tempo_violations + worse
                        /\ exercise'.transition_times
                               = Append(exercise.transition_times, elapsed)
                        /\ TempoMessagesIn(result') = {1}
                        /\ result'.feedback_messages[1] = message
                        /\ result'.score
                               = Points(100 - off - (IF monitor'.head_off THEN 5 ELSE 0))
               ELSE /\ exercise'.tempo_violations = exercise.tempo_violations
                    /\ exercise'.transition_times = exercise.transition_times
                    /\ TempoMessagesIn(result') = {}
                    /\ result'.score = Points(100 - (IF monitor'.head_off THEN 5 ELSE 0))]_vars

\* Changes after exactly 60 and exactly 150 frames, both within the window
TempoClassified_witness ==
    /\ monitor.op = "validate_form"
    /\ "direct" \in DOMAIN monitor
    /\ monitor.direct
    /\ monitor.elapsed = 150
    /\ exercise.transition_times = <<60, 150>>
    /\ exercise.tempo_violations = 0
    /\ exercise.last_state_change = 211

\* C25: Cat-Cow: the rep count in details['reps'] is the whole part of
\* rep_count, floor(q / 2) for q direct CAT<->COW changes since the last
\* reset: it goes up by one only on the change that completes a pair, and
\* never goes down from one call to the next
ReportedRepsAreWholeCycles ==
    [][monitor'.op = "validate_form" =>
            /\ result'.details.reps = monitor'.q \div 2
            /\ HasResult =>
                   result'.details.reps
                       = result.details.reps
                         + (IF monitor'.q = monitor.q + 1 /\ monitor'.q % 2 = 0
                            THEN 1 ELSE 0)]_vars

\* Three direct changes: one rep reported, the half waiting
ReportedRepsAreWholeCycles_witness ==
    /\ monitor.op = "validate_form"
    /\ monitor.q = 3
    /\ result.details.reps = 1
    /\ exercise.rep_count = 3

\* C26: after a validate_form call the stored phase is the one the bands
\* give that call's primary metric, whatever the phase before it: Cat-Cow
\* spine_curvature < -10 CAT, > 10 COW, otherwise NEUTRAL; Wall Angels
\* avg_arm_angle in [70, 110] ARMS_DOWN, in [160, 190] ARMS_UP, otherwise
\* TRANSITION
PhaseFromMetricAlone ==
    (monitor.op = "validate_form" /\ HasResult) =>
        /\ exercise.current_state = monitor.band
        /\ result.details.state = monitor.band

\* An average of exactly 190 right after ARMS_DOWN: ARMS_UP
PhaseFromMetricAlone_witness ==
    /\ monitor.op = "validate_form"
    /\ HasResult
    /\ "band" \in DOMAIN monitor
    /\ exercise.cls = "wall_angels"
    /\ monitor.previous = "arms_down"
    /\ monitor.metric = 190
    /\ exercise.current_state = "arms_up"

\* The checks of each validate_form in the order the code runs them, each
\* with the messages it can append; "(names)" stands for a line built from
\* the names of the missing points
check_order(cls) ==
    IF cls = "scoliosis_cat_cow"
    THEN <<{"tempo_slow_down", "tempo_speed_up", "tempo_good"},
           {"cat_round_more", "cat_over_flex", "cat_good", "cow_extend_more",
            "cow_over_extend", "cow_good", "return_to_start"},
           {"hands_under_shoulders"},
           {"knees_under_hips"},
           {"keep_symmetrical", "good_symmetry"},
           {"head_aligned"},
           {"reps_completed"},
           {"average_tempo"}>>
    ELSE IF cls = "wall_angels"
    THEN <<{"rep_complete"},
           {"raise_to_shoulder_level", "lower_to_shoulder_level",
            "good_start_position", "reach_overhead", "dont_over_extend",
            "arms_fully_raised", "move_slowly", "start_at_shoulder_level"},
           {"keep_arms_symmetrical", "good_arm_symmetry"},
           {"left_elbow_back"},
           {"right_elbow_back"},
           {"elbows_close"},
           {"back_flat"}>>
    ELSE IF cls = "chest_opener_retraction"
    THEN <<{"(names)"},
           {"move_into_frame"},
           {"get_into_start_position"},
           {"left_elbow_not_at_height"},
           {"right_elbow_not_at_height"},
           {"requirements"},
           {"both_elbows_at_height"},
           {"hold_complete_now_rise", "hold_remaining", "hold_complete_rise",
            "hold_broken"},
           {"rep_complete", "back_in_start_ready", "start_elbows_above",
            "start_elbows_at_height", "only_one_elbow_below",
            "rise_back_to_start"},
           {"elbow_angles"},
           {"lower_hold_rise", "lower_again"}>>
    ELSE <<{"cannot_see_all_points"},
           {"(names)"},
           {"move_into_frame"},
           {"both_arms_visible"},
           {"right_tilt_all_crossed", "right_tilt_not_crossing", "tilt_head_right"},
           {"all_six_right"},
           {"left_tilt_all_crossed", "left_tilt_not_crossing", "tilt_head_left"},
           {"all_six_left"},
           {"right_rep_complete"},
           {"left_rep_complete"}>>

\* The place in order of the check a message comes from
check_of(order, message) ==
    LET known == UNION {order[i] : i \in DOMAIN order}
        name == IF message \in known THEN message ELSE "(names)"
    IN  CHOOSE i \in DOMAIN order : name \in order[i]

\* The five kinds of check in the order visibility, phase/position, symmetry,
\* secondary alignment, progress/summary, for the two validators that have
\* symmetry and alignment checks
kind_order(cls) ==
    IF cls = "scoliosis_cat_cow"
    THEN <<{"(names)"},
           {"tempo_slow_down", "tempo_speed_up", "tempo_good",
            "cat_round_more", "cat_over_flex", "cat_good", "cow_extend_more",
            "cow_over_extend", "cow_good", "return_to_start"},
           {"keep_symmetrical", "good_symmetry"},
           {"hands_under_shoulders", "knees_under_hips", "head_aligned"},
           {"reps_completed", "average_tempo"}>>
    ELSE <<{"(names)"},
           {"raise_to_shoulder_level", "lower_to_shoulder_level",
            "good_start_position", "reach_overhead", "dont_over_extend",
            "arms_fully_raised", "move_slowly", "start_at_shoulder_level"},
           {"keep_arms_symmetrical", "good_arm_symmetry"},
           {"left_elbow_back", "right_elbow_back", "elbows_close", "back_flat"},
           {"rep_complete"}>>

\* C27 as stated: in Cat-Cow and Wall Angels no message of a later kind of
\* check (visibility, phase/position, symmetry, secondary alignment,
\* progress/summary) precedes a message of an earlier kind
FeedbackInKindOrder ==
    (HasResult /\ exercise.cls \in {"scoliosis_cat_cow", "wall_angels"}) =>
        LET messages == result.feedback_messages
            order == kind_order(exercise.cls)
        IN  \A i, j \in DOMAIN messages :
                i < j => check_of(order, messages[i]) <= check_of(order, messages[j])

\* C27, amended: the messages of every result come in the order in which
\* its validator's code runs the checks, each check at most once: a message
\* of a later check never precedes or repeats a message of an earlier one, so
\* the messages two frames have in common come in the same relative order
FeedbackInCheckOrder ==
    HasResult =>
        LET messages == result.feedback_messages
            order == check_order(exercise.cls)
        IN  \A i, j \in DOMAIN messages :
                i < j => check_of(order, messages[i]) < check_of(order, messages[j])

\* A Cat-Cow frame with a tempo line, the hands off the shoulders, the knees
\* off the hips, the sides uneven, the head off the spine and both summary
\* lines
FeedbackInCheckOrder_witness ==
    /\ HasResult
    /\ exercise.cls = "scoliosis_cat_cow"
    /\ \E tempo \in {"tempo_slow_down", "tempo_speed_up", "tempo_good"} :
        \E spine \in {"cat_good", "cow_good", "cat_over_flex", "cow_over_extend"} :
            result.feedback_messages =
                <<tempo, spine, "hands_under_shoulders", "knees_under_hips",
                  "keep_symmetrical", "head_aligned", "reps_completed",
                  "average_tempo">>

\* The second violation counter: tempo_violations or elbow_violations
other_violations(self) ==
    IF self.cls = "scoliosis_cat_cow" THEN self.tempo_violations
    ELSE self.elbow_violations

\* C28: the violation counters of Cat-Cow and Wall Angels are never negative,
\* never fall across a validate_form call and are 0 after reset();
\* symmetry_violations rises by exactly 1 on a frame whose symmetry
\* difference exceeds its tolerance and by 0 otherwise, elbow_violations by
\* the number of elbows beyond MAX_ELBOW_FORWARD on the frame
ViolationCountersGrow ==
    [][/\ exercise'.symmetry_violations >= 0
       /\ other_violations(exercise') >= 0
       /\ monitor'.op = "validate_form" =>
            /\ exercise'.symmetry_violations =
                   exercise.symmetry_violations + monitor'.uneven
            /\ other_violations(exercise') >= other_violations(exercise)
            /\ exercise.cls = "wall_angels" =>
                   exercise'.elbow_violations =
                       exercise.elbow_violations + monitor'.elbows
       /\ monitor'.op = "reset" =>
            /\ exercise'.symmetry_violations = 0
            /\ other_violations(exercise') = 0]_vars

\* Wall Angels after a frame with both elbows forward and the arms uneven,
\* three elbow violations and two symmetry violations counted so far
ViolationCountersGrow_witness ==
    /\ monitor.op = "validate_form"
    /\ "elbows" \in DOMAIN monitor
    /\ exercise.cls = "wall_angels"
    /\ monitor.elbows = 2
    /\ monitor.uneven = 1
    /\ exercise.elbow_violations = 3
    /\ exercise.symmetry_violations = 2

\* C29: Neck Side-to-Side: after every validate_form call and every reset()
\* rep_count = left_reps + right_reps; a call adds 0 or 1 to each direction
\* counter, 1 exactly when it announces that direction's rep, and to the
\* total what it adds to the two directions
NeckTotalIsSumOfSides ==
    [][LET right == exercise'.right_reps - exercise.right_reps
           left == exercise'.left_reps - exercise.left_reps
           announced(message) ==
               \E i \in DOMAIN result'.feedback_messages :
                   result'.feedback_messages[i] = message
       IN  /\ exercise'.rep_count = exercise'.left_reps + exercise'.right_reps
           /\ monitor'.op = "validate_form" =>
                /\ right = (IF announced("right_rep_complete") THEN 1 ELSE 0)
                /\ left = (IF announced("left_rep_complete") THEN 1 ELSE 0)
                /\ exercise'.rep_count - exercise.rep_count = right + left]_vars

\* A left rep counted on top of a right rep
NeckTotalIsSumOfSides_witness ==
    /\ monitor.op = "validate_form"
    /\ exercise.cls = "neck_side_to_side"
    /\ monitor.fell_left
    /\ exercise.left_reps = 1
    /\ exercise.right_reps = 1
    /\ exercise.rep_count = 2

\* C30: Chest Opener: after every validate_form call and after reset()
\* 0 <= hold_counter <= HOLD_FRAMES, hold_complete is true exactly when
\* hold_counter = HOLD_FRAMES, and across a call hold_counter stays, grows
\* by 1 or becomes 0
HoldCounterWithinHold ==
    [][/\ 0 <= exercise'.hold_counter
       /\ exercise'.hold_counter <= HOLD_FRAMES
       /\ exercise'.hold_complete <=> (exercise'.hold_counter = HOLD_FRAMES)
       /\ \/ exercise'.hold_counter = exercise.hold_counter
          \/ exercise'.hold_counter = exercise.hold_counter + 1
          \/ exercise'.hold_counter = 0]_vars

\* The elbows still below the shoulders on the frame after the one that
\* completed the hold
HoldCounterWithinHold_witness ==
    /\ monitor.op = "validate_form"
    /\ HasResult
    /\ exercise.cls = "chest_opener_retraction"
    /\ \E i \in DOMAIN result.feedback_messages :
           result.feedback_messages[i] = "hold_complete_rise"
    /\ exercise.hold_complete
    /\ exercise.hold_counter = HOLD_FRAMES

\* C31: Wall Angels: after every validate_form call the flags
\* down_position_reached and up_position_reached are not both true;
\* up_position_reached becomes true only on an ARMS_UP frame that found
\* down_position_reached true, and a frame clears it only if it is an
\* ARMS_DOWN frame, which then counts exactly one rep
WallAngelsFlagsExclusive ==
    [][monitor'.op = "validate_form" =>
        /\ ~(exercise'.down_position_reached /\ exercise'.up_position_reached)
        /\ (~exercise.up_position_reached /\ exercise'.up_position_reached) =>
               /\ exercise'.current_state = STATE_ARMS_UP
               /\ exercise.down_position_reached
        /\ (exercise.up_position_reached /\ ~exercise'.up_position_reached) =>
               /\ exercise'.current_state = STATE_ARMS_DOWN
               /\ exercise'.rep_count = exercise.rep_count + 1]_vars

\* The arms up again in the second cycle, one rep counted
WallAngelsFlagsExclusive_witness ==
    /\ monitor.op = "validate_form"
    /\ exercise.cls = "wall_angels"
    /\ exercise.current_state = STATE_ARMS_UP
    /\ exercise.up_position_reached
    /\ ~exercise.down_position_reached
    /\ exercise.rep_count = 1

\* C32: Neck Side-to-Side on the metrics calculate_metrics returns: after
\* every validate_form call right_was_crossed and left_was_crossed are not
\* both true, and a call adds at most 1 to rep_count
NeckOneSideAtATime ==
    [][monitor'.op = "validate_form" =>
        /\ ~(exercise'.right_was_crossed /\ exercise'.left_was_crossed)
        /\ exercise'.rep_count <= exercise.rep_count + 1]_vars

\* All six points gone from the right of the midline straight to its left:
\* the right rep counted, the left crossing noted
NeckOneSideAtATime_witness ==
    /\ monitor.op = "validate_form"
    /\ exercise.cls = "neck_side_to_side"
    /\ monitor.visible
    /\ monitor.fell_right
    /\ monitor.left
    /\ exercise.left_was_crossed
    /\ ~exercise.right_was_crossed
    /\ exercise.rep_count = 1

NeckScoreCountsLeftPoints ==
    (monitor.op = "validate_form" /\ HasResult) =>
        LET one_side == monitor.n_right = 6 \/ monitor.n_left = 6
        IN  /\ result.is_correct <=> (result.score = Points(100))
            /\ result.is_correct <=> one_side
            /\ ~one_side => 6 * result.score = monitor.n_left * Points(100)

\* Five points right of the midline and one on it: score 0
NeckScoreCountsLeftPoints_witness ==
    /\ monitor.op = "validate_form"
    /\ HasResult
    /\ "n_right" \in DOMAIN monitor
    /\ monitor.n_right = 5
    /\ monitor.n_left = 0
    /\ result.score = 0
    /\ ~result.is_correct

\* C35: Chest Opener: the score of every result is 0 or 100 and is_correct
\* is true exactly when it is 100; it is 0 exactly on a frame with an elbow
\* flagged not visible and on a frame outside the start position before the
\* start position has been validated, and 100 on every other frame
ChestScoreAllOrNothing ==
    [][(monitor'.op = "validate_form" /\ exercise.cls = "chest_opener_retraction") =>
        /\ result'.score \in {0, Points(100)}
        /\ result'.is_correct <=> (result'.score = Points(100))
        /\ (result'.score = 0) <=>
               \/ ~monitor'.visible
               \/ (~exercise.start_position_validated /\ ~monitor'.start_ok)]_vars

\* One elbow below the shoulder and one above, the start position validated
\* before: score 100
ChestScoreAllOrNothing_witness ==
    /\ monitor.op = "validate_form"
    /\ HasResult
    /\ exercise.cls = "chest_opener_retraction"
    /\ result.feedback_messages = <<"only_one_elbow_below">>
    /\ result.score = Points(100)
    /\ result.is_correct

\* The messages of the insufficient-range and out-of-band position penalties
RangeMessages ==
    {"cat_round_more", "cow_extend_more", "raise_to_shoulder_level",
     "lower_to_shoulder_level", "reach_overhead", "dont_over_extend"}

\* C36: in Cat-Cow and Wall Angels the insufficient-range and out-of-band
\* position penalties never fire: a frame classified CAT has spine_curvature
\* < -10, one classified COW > 10, one classified ARMS_DOWN or ARMS_UP has
\* avg_arm_angle inside its band; the score is never below 35 in Cat-Cow nor
\* below 55 in Wall Angels
RangePenaltiesNeverFire ==
    (monitor.op = "validate_form" /\ HasResult) =>
        LET state == result.details.state
            primary == monitor.primary
        IN  /\ \A i \in DOMAIN result.feedback_messages :
                   result.feedback_messages[i] \notin RangeMessages
            /\ state = STATE_CAT => primary < -10
            /\ state = STATE_COW => primary > 10
            /\ state = STATE_ARMS_DOWN => (70 <= primary /\ primary <= 110)
            /\ state = STATE_ARMS_UP => (160 <= primary /\ primary <= 190)
            /\ exercise.cls = "scoliosis_cat_cow" => result.score >= Points(35)
            /\ exercise.cls = "wall_angels" => result.score >= Points(55)

\* Cat-Cow at its lowest: an over-extended COW reached too fast, with every
\* secondary criterion beyond its tolerance, scores 35
RangePenaltiesNeverFire_witness ==
    /\ monitor.op = "validate_form"
    /\ HasResult
    /\ "primary" \in DOMAIN monitor
    /\ exercise.cls = "scoliosis_cat_cow"
    /\ result.details.state = STATE_COW
    /\ monitor.primary > MAX_SPINE_EXT
    /\ result.score = Points(35)

\* The ids of the registry
registered_ids(exercises) == {exercises[i].key : i \in DOMAIN exercises}

\* C37: auto-discovery tolerates failing imports and runs at most once
\* between resets: a module whose import raises is reported and left out of
\* sys.modules, and every other module found is still imported and
\* registered; after any call
\* of auto_discover _initialized is true, and a call that finds it true
\* changes nothing
DiscoveryToleratesFailures ==
    [][factory_out'.op = "auto_discover" =>
        /\ _initialized'
        /\ _initialized =>
               /\ _exercises' = _exercises
               /\ factory_out'.printed = <<>>
               /\ monitor'.sys_modules = monitor.sys_modules
        /\ (~_initialized /\ ~factory_out'.walk_raised) =>
               \A i \in DOMAIN DiscoveredModules :
                   LET found == DiscoveredModules[i]
                       modname == found.exercise_class.module
                   IN  IF modname \in monitor.sys_modules THEN TRUE
                       ELSE IF monitor.outcome[modname] = "ok"
                       THEN /\ found.exercise_id \in registered_ids(_exercises')
                            /\ modname \in monitor'.sys_modules
                       ELSE /\ modname \notin monitor'.sys_modules
                            /\ \E w \in DOMAIN factory_out'.printed :
                                   factory_out'.printed[w].modname = modname]_vars

\* The first discovery done: the second module found raised on import, the
\* first, the third and the fourth are registered
DiscoveryToleratesFailures_witness ==
    /\ factory_out.op = "auto_discover"
    /\ "outcome" \in DOMAIN monitor
    /\ _initialized
    /\ Len(factory_out.printed) = 1
    /\ factory_out.printed[1].modname = DiscoveredModules[2].exercise_class.module
    /\ registered_ids(_exercises) =
           {DiscoveredModules[i].exercise_id : i \in {1, 3, 4}}

\* C38: reset() followed by the next create call restores a working
\* registry: the call runs auto-discovery again and afterwards every id that
\* was registered before the reset is registered again, so that create
\* succeeds for it
ResetRestoresRegistry ==
    [][(factory_out.op = "reset" /\ factory_out'.op = "create") =>
        /\ _initialized'
        /\ \A id \in monitor.before : id \in registered_ids(_exercises')
        /\ factory_out'.exercise_id \in monitor.before =>
               factory_out'.raised = "none"]_vars

====
